---------------------------- MODULE Spec2Model ----------------------------
(***************************************************************************)
(* Incremental synchronisation of daily OHLCV bars: the planner that reads *)
(* per-ticker high-water marks from the warehouse, the per-ticker          *)
(* fetch / partition / upload loop, and the partitioners of the            *)
(* comprehensive (yearly) and fixed-production (expected month) pipelines. *)
(*                                                                         *)
(* Dates.  A datetime is a day number (days since 1970-01-01); a formatted *)
(* '%Y-%m-%d' string is the triple <<year, month, day>>, compared the way  *)
(* Python compares zero-padded strings (lexicographically).  A Polygon     *)
(* timestamp 't' (epoch milliseconds) is counted in hours since the epoch. *)
(***************************************************************************)
EXTENDS Integers, Sequences, FiniteSets, TLC

(***************************************************************************)
(* datetime / strftime / strptime                                          *)
(***************************************************************************)

\* The civil date <<year, month, day>> from the year of the era, the era, the
\* day of the year and the month counted from March.
CivilYMD(yoe, era, doy, mp) ==
    <<yoe + era * 400 + (IF mp < 10 THEN 0 ELSE 1),
      IF mp < 10 THEN mp + 3 ELSE mp - 9,
      doy - ((153 * mp + 2) \div 5) + 1>>

CivilOfYear(yoe, era, doy) == CivilYMD(yoe, era, doy, (5 * doy + 2) \div 153)

CivilOfEra(era, doe, yoe) ==
    CivilOfYear(yoe, era, doe - (365 * yoe + (yoe \div 4) - (yoe \div 100)))

CivilOfDay(era, doe) ==
    CivilOfEra(era, doe,
               (doe - (doe \div 1460) + (doe \div 36524) - (doe \div 146096)) \div 365)

\* datetime.strftime('%Y-%m-%d'): the civil date of a day number.
strftime(n) ==
    CivilOfDay((n + 719468) \div 146097,
               (n + 719468) - ((n + 719468) \div 146097) * 146097)

\* The day number of day d of the month mp (counted from March) of year y
\* (a year that starts in March).
DaysOfCivil(y, mp, d) ==
    (y \div 400) * 146097 + (y % 400) * 365 + ((y % 400) \div 4) - ((y % 400) \div 100)
    + ((153 * mp + 2) \div 5) + d - 1 - 719468

\* datetime.strptime(s, '%Y-%m-%d'): the day number of a civil date.
strptime(s) ==
    DaysOfCivil(s[1] - (IF s[2] <= 2 THEN 1 ELSE 0),
                IF s[2] > 2 THEN s[2] - 3 ELSE s[2] + 9,
                s[3])

\* datetime.weekday(): Monday is 0, Sunday is 6 (1970-01-01 was a Thursday).
weekday(n) == (n + 3) % 7

\* A comparison that never finds the first string the greater one.
StrNeverGT(a, b) == FALSE

\* Python's  a > b  on two '%Y-%m-%d' strings.
StrGT(a, b) ==
    \/ a[1] > b[1]
    \/ a[1] = b[1] /\ a[2] > b[2]
    \/ a[1] = b[1] /\ a[2] = b[2] /\ a[3] > b[3]

(***************************************************************************)
(* Bounds of the exploration and program constants                         *)
(***************************************************************************)

\* Python's None (an Optional[str] is None or a date string; an Optional[dict]
\* is None or the one-element tuple holding the dict).
None == <<>>

\* timedelta(days=730): the look-back of a ticker with no stored data.
LOOKBACK_DAYS == 730

\* Hours in a day (a timestamp is counted in hours).
HoursPerDay == 24

\* The first day on which a run may be started: 2024-03-02, a Saturday.
FirstDay == 19784

\* Runs are started on FirstDay .. FirstDay + StartDays - 1 (every weekday).
StartDays == 7

\* Midnights that may pass between the construction of a pipeline and its end.
MaxTicks == 1

\* Longest 'results' array of an upstream response.
MaxBars == 2

\* Runs of the scheduled pipeline (SpecSchedule).
MaxRuns == 2

\* Longest row sequence handed to a partitioner (SpecPartition).
MaxRows == 3

\* The range generators' inputs (SpecRanges): the first start date,
\* 2023-12-20, the number of start dates, and the longest span in days.
RangeFirstDay == 19711
RangeDays == 74
MaxSpan == 70

\* self.RATE_LIMIT_DELAY, 12.5 seconds, in half-seconds.
RATE_LIMIT_DELAY == 25

\* The most a sleep or a call of process_ticker overruns in SpecRate.
MaxLag == 1

VARIABLES
    clock,              \* the host's current date (day number of datetime.now())
    today,              \* the date on which the pipeline object was constructed
    tz,                 \* the host's UTC offset in hours (datetime.fromtimestamp is local time)
    tickers,            \* TICKER_SYMBOL of SP_SECTOR_COMPANIES, ORDER BY TICKER_SYMBOL
    pipeline,           \* the class main() runs: incremental, comprehensive or fixed
    warehouse,          \* rows of sp500_top10_sector_ohlcv_itbl: [TICKER, OHLC_DATE]
    s3,                 \* the bucket: object key -> rows of the Parquet artifact
    disk,               \* local Parquet files (the scratch copies)
    END_DATE,           \* self.END_DATE
    pc,                 \* position of run(): start, s3init, loop, done, raised
    ticker_ranges,      \* run()'s ticker_ranges, in insertion order
    i,                  \* loop iterations of run() completed
    successful_tickers, \* run()'s counter
    failed_tickers,     \* run()'s list
    queryRaised,        \* tickers whose MAX(OHLC_DATE) query raised in this run
    fetchLog,           \* one record per call of process_ticker in this run
    writeLog,           \* one record per call of _save_and_upload_to_s3 in this run
    lost,               \* buckets of the previous run that failed beside a written one
    run,                \* number of the current run
    body_in,            \* SpecPartition: the response body handed to the partitioners
    by_month,           \* SpecPartition: result of _process_data_by_month, once applied
    by_year,            \* SpecPartition: result of _process_data_by_year, once applied
    month_idx,          \* SpecFixed: process_ticker's total_months
    month_successes,    \* SpecFixed: process_ticker's success_count
    fixedLog,           \* SpecFixed: the last iteration of process_ticker's month loop
    jitter,             \* the most a sleep or a call may overrun on this host (half-seconds)
    mono,               \* time.monotonic() since run() began, in half-seconds
    lastWrite,          \* SpecWriter: the last two calls of _save_and_upload_to_s3
    range_in,           \* SpecRanges: START_DATE and END_DATE of the range generator
    ranges_out,         \* SpecRanges: what _generate_monthly_ranges returned, once called
    vpc,                \* SpecVerify: position of run_pipeline_with_verification.main
    pipeline_code,      \* SpecVerify: return code of the pipeline's process
    verification_results, \* SpecVerify: status of each check of the verifier
    overall_status,     \* SpecVerify: summary['overall_status'] of the verifier
    verification_code,  \* SpecVerify: return code of the verifier's process
    final_exit_code     \* SpecVerify: the exit code of main

host     == <<tz, tickers, pipeline, jitter>>
stores   == <<warehouse, s3, disk>>
runState == <<END_DATE, pc, ticker_ranges, i, successful_tickers, failed_tickers>>
history  == <<queryRaised, fetchLog, writeLog>>
partVars == <<body_in, by_month, by_year>>
fixedVars == <<month_idx, month_successes, fixedLog>>

rangeVars == <<range_in, ranges_out>>
verifyVars == <<vpc, pipeline_code, verification_results, overall_status,
                verification_code, final_exit_code>>
toolVars == <<rangeVars, verifyVars>>

vars == <<clock, today, host, stores, runState, history, lost, run, partVars, fixedVars,
          mono, lastWrite, toolVars>>

Range(f) == {f[k] : k \in DOMAIN f}

Max(S) == CHOOSE m \in S : \A o \in S : o <= m

(***************************************************************************)
(* IncrementalOHLCVPipeline.__init__                                       *)
(***************************************************************************)

\* The end date computed at construction from today's weekday.
EndDateOf(day) ==
    IF weekday(day) = 5 THEN strftime(day - 1)
    ELSE IF weekday(day) = 6 THEN strftime(day - 2)
    ELSE strftime(day - 1)

(***************************************************************************)
(* Planning: get_max_date_for_ticker and get_ticker_date_ranges            *)
(***************************************************************************)

\* SELECT MAX(OHLC_DATE) ... WHERE TICKER = %s, formatted; None when there is
\* no row, and None as well when the query raised (the except branch).
get_max_date_for_ticker(ticker, raises) ==
    LET dates == {r.OHLC_DATE : r \in {w \in warehouse : w.TICKER = ticker}}
    IN  IF raises THEN None
        ELSE IF dates = {} THEN None
        ELSE strftime(Max(dates))

\* The start date the specification words: 730 days before the cutoff date.
FullHistoryStartFromCutoff(now) == strftime(strptime(END_DATE) - LOOKBACK_DAYS)

\* The start date of a ticker without stored data: 730 days before now().
FullHistoryStart(now) == strftime(now - LOOKBACK_DAYS)

\* The start date of a ticker with stored data: the day after max_date.
NextDayStart(max_date) == strftime(strptime(max_date) + 1)

\* The loop of get_ticker_date_ranges from ticker k on; nowAt[k] is the date
\* datetime.now() gives in iteration k, raised the tickers whose query raises.
RECURSIVE PlanFrom(_, _, _, _)
PlanFrom(k, acc, raised, nowAt) ==
    IF k > Len(tickers) THEN acc
    ELSE LET ticker   == tickers[k]
             max_date == get_max_date_for_ticker(ticker, ticker \in raised)
         IN  IF max_date # None
             THEN LET start_date == NextDayStart(max_date)
                  IN  IF StrGT(start_date, END_DATE)
                      THEN PlanFrom(k + 1, acc, raised, nowAt)
                      ELSE PlanFrom(k + 1,
                             Append(acc, [ticker |-> ticker, start_date |-> start_date,
                                          end_date |-> END_DATE]),
                             raised, nowAt)
             ELSE PlanFrom(k + 1,
                    Append(acc, [ticker |-> ticker,
                                 start_date |-> FullHistoryStart(nowAt[k]),
                                 end_date |-> END_DATE]),
                    raised, nowAt)

get_ticker_date_ranges(raised, nowAt) == PlanFrom(1, <<>>, raised, nowAt)

(***************************************************************************)
(* Upstream responses and _get_polygon_data                                *)
(***************************************************************************)

\* Timestamps (hours since the epoch) the upstream may return in Spec and
\* SpecSchedule: 2024-02-29 05:00, 2024-03-01 05:00 and 2024-03-01 06:00 UTC.
BarTimes == {19782 * HoursPerDay + 5, 19783 * HoursPerDay + 5, 19783 * HoursPerDay + 6}

\* All sequences over S of length 1 .. n.
SeqsUpTo(S, n) == UNION {[1..k -> S] : k \in 1..n}

\* The 'results' arrays of a request with 'sort': 'asc': bars in strictly
\* ascending order of their timestamps, at most n of them.
AscendingResults(times, n) ==
    {rs \in SeqsUpTo([t : times], n) : \A k \in 1..(Len(rs) - 1) : rs[k].t < rs[k + 1].t}

\* What requests.get may do: raise (timeout, connection error, or a non-2xx
\* status through raise_for_status), or deliver a JSON body.  A body without
\* a 'results' field is the body with no results.
Responses(times, n) ==
    {[kind |-> "raise"]} \cup
    {[kind |-> "json", body |-> [status |-> st, results |-> <<>>]] : st \in {"OK", "ERROR"}} \cup
    {[kind |-> "json", body |-> [status |-> "OK", results |-> rs]] :
        rs \in AscendingResults(times, n)}

\* The responses of the upstream in Spec and SpecSchedule.
RunResponses == Responses(BarTimes, MaxBars)

\* What the upstream did, as the specification's SourceClient would report it.
UpstreamOutcome(resp) ==
    IF resp.kind = "raise" THEN "Error"
    ELSE IF resp.body.status = "OK" /\ resp.body.results # <<>> THEN "Ok"
    ELSE "NoData"

\* The value _get_polygon_data returns: the body, or None.
_get_polygon_data(resp) ==
    IF resp.kind = "raise" THEN None
    ELSE IF resp.body.status = "OK" /\ resp.body.results # <<>> THEN <<resp.body>>
    ELSE None

(***************************************************************************)
(* Partitioners                                                            *)
(***************************************************************************)

\* datetime.fromtimestamp(t / 1000): the local date of a timestamp.
fromtimestamp(t, offset) == (t + offset) \div HoursPerDay

\* The records built from data['results'], as the DataFrame holds them:
\* OHLC_DATE formatted and parsed back by pd.to_datetime (a day number).
ToDataFrame(ticker, results, offset) ==
    [k \in DOMAIN results |->
        [TICKER         |-> ticker,
         OHLC_DATE      |-> strptime(strftime(fromtimestamp(results[k].t, offset))),
         OHLC_TIMESTAMP |-> results[k].t]]

\* df['OHLC_DATE'].dt.year and .dt.month
DtYear(row)  == strftime(row.OHLC_DATE)[1]
DtMonth(row) == strftime(row.OHLC_DATE)[2]

\* A month key that ignores the year of the row (every row filed under 2024).
MonthKeyIgnoringYear(row) == <<2024, DtMonth(row)>>

\* The month key f"{year:04d}-{month:02d}" and the year key f"{year}".
MonthKeyOf(row) == <<DtYear(row), DtMonth(row)>>
YearKeyOf(row)  == <<DtYear(row)>>

\* df.groupby([year, month]): one group per key that occurs, holding the rows
\* of that key in row order.
GroupByMonth(df) ==
    [key \in {MonthKeyOf(df[k]) : k \in DOMAIN df} |->
        SelectSeq(df, LAMBDA row : MonthKeyOf(row) = key)]

\* df.groupby(year)
GroupByYear(df) ==
    [key \in {YearKeyOf(df[k]) : k \in DOMAIN df} |->
        SelectSeq(df, LAMBDA row : YearKeyOf(row) = key)]

\* IncrementalOHLCVPipeline._process_data_by_month
_process_data_by_month(ticker, data, offset) ==
    IF data.results = <<>> THEN <<>>
    ELSE GroupByMonth(ToDataFrame(ticker, data.results, offset))

\* ComprehensiveOHLCVPipeline._process_data_by_year
_process_data_by_year(ticker, data, offset) ==
    IF data.results = <<>> THEN <<>>
    ELSE GroupByYear(ToDataFrame(ticker, data.results, offset))

\* No filter at all: every row of the response is kept.
NoMonthFilter(df, expected_month) == df

\* The month filter of _process_month_data.
MonthFilter(df, expected_month) ==
    SelectSeq(df, LAMBDA row : DtYear(row) = expected_month[1]
                               /\ DtMonth(row) = expected_month[2])

\* FixedProductionOHLCVPipeline._process_month_data: the rows of the expected
\* month only, or None when there is none.
_process_month_data(ticker, data, expected_month, offset) ==
    IF data.results = <<>> THEN None
    ELSE MonthFilter(ToDataFrame(ticker, data.results, offset), expected_month)

(***************************************************************************)
(* _save_and_upload_to_s3 and process_ticker                               *)
(***************************************************************************)

\* Where a call of _save_and_upload_to_s3 may raise in the runs: nowhere, in
\* Table.from_pandas / write_table, in upload_file, or in os.remove (the
\* os.remove of the handler then failing as well).
WriteFaults == {"none", "serialize", "upload", "remove"}

\* The same for the writers of SpecWriter, and an os.remove that raises while
\* the os.remove of the handler goes through ("remove_retry").
WriterFaults == WriteFaults \cup {"remove_retry"}

\* An object key that counts the objects the bucket holds.
S3KeyNumbered(ticker, period) == <<ticker>> \o period \o <<Cardinality(DOMAIN s3)>>

\* The object key f"{ticker}_{month_formatted}.parquet" (also the local name).
S3Key(ticker, period) == <<ticker>> \o period

\* upload_file: the object at key is replaced as a whole.
Put(store, key, df) ==
    [x \in DOMAIN store \cup {key} |-> IF x = key THEN df ELSE store[x]]

\* A writer whose upload has replaced the object when upload_file raises.
SaveUploadedBeforeFailure(ticker, period, df, fault, store, files) ==
    [ok   |-> fault = "none",
     s3   |-> IF fault = "serialize" THEN store ELSE Put(store, S3Key(ticker, period), df),
     disk |-> IF fault = "remove" THEN files \cup {S3Key(ticker, period)}
              ELSE files \ {S3Key(ticker, period)}]

\* One call of _save_and_upload_to_s3: its return value, the bucket and the
\* local files after it.  The handler removes the local file if it exists.
_save_and_upload_to_s3(ticker, period, df, fault, store, files) ==
    LET key == S3Key(ticker, period)
    IN  CASE fault = "serialize"    -> [ok |-> FALSE, s3 |-> store, disk |-> files \ {key}]
          [] fault = "upload"       -> [ok |-> FALSE, s3 |-> store, disk |-> files \ {key}]
          [] fault = "remove"       -> [ok |-> FALSE, s3 |-> Put(store, key, df),
                                        disk |-> files \cup {key}]
          [] fault = "remove_retry" -> [ok |-> FALSE, s3 |-> Put(store, key, df),
                                        disk |-> files \ {key}]
          [] OTHER                  -> [ok |-> TRUE, s3 |-> Put(store, key, df),
                                        disk |-> files \ {key}]

\* The period of the key f"{ticker}_2023_2025.parquet" of the flat writer.
FlatPeriod == <<2023, 2025>>

\* VectorizedScannerTestPipeline._save_and_upload_to_s3_flat: the same steps
\* and the same handler, under the key of the whole range.
_save_and_upload_to_s3_flat(ticker, df, fault, store, files) ==
    _save_and_upload_to_s3(ticker, FlatPeriod, df, fault, store, files)

\* The buckets process_ticker builds from a response (none without data).
Buckets(ticker, resp, offset) ==
    IF _get_polygon_data(resp) # None
    THEN _process_data_by_month(ticker, _get_polygon_data(resp)[1], offset)
    ELSE <<>>

\* The earliest period key of a non-empty set (groupby yields sorted keys).
FirstKey(left) ==
    CHOOSE m \in left : \A o \in left : ~StrGT(m \o <<0, 0>>, o \o <<0, 0>>)

\* The counters, stores and log of process_ticker after one more call of
\* _save_and_upload_to_s3, whose result is r.
AfterSave(ticker, month, df, fault, st, r) ==
    [total_files   |-> st.total_files + 1,
     success_count |-> st.success_count + (IF r.ok THEN 1 ELSE 0),
     s3            |-> r.s3,
     disk          |-> r.disk,
     writes        |-> st.writes \cup
         {[ticker   |-> ticker,
           month    |-> month,
           ok       |-> r.ok,
           uploaded |-> fault \in {"none", "remove", "remove_retry"},
           dates    |-> {row.OHLC_DATE : row \in Range(df)}]}]

SaveOne(ticker, month, df, fault, st) ==
    AfterSave(ticker, month, df, fault, st,
              _save_and_upload_to_s3(ticker, month, df, fault, st.s3, st.disk))

\* The loop  for month, df in monthly_data.items()  over the months left.
RECURSIVE SaveAll(_, _, _, _, _)
SaveAll(ticker, monthly_data, faults, left, st) ==
    IF left = {} THEN st
    ELSE SaveAll(ticker, monthly_data, faults, left \ {FirstKey(left)},
                 SaveOne(ticker, FirstKey(left), monthly_data[FirstKey(left)],
                         faults[FirstKey(left)], st))

\* A return value that asks for one written file only.
ProcessResultAnySuccess(success_count, total_files) == success_count > 0

\* The value process_ticker returns once the loop is over.
ProcessResult(success_count, total_files) ==
    success_count = total_files /\ total_files > 0

ProcessReturn(st) ==
    [ret |-> ProcessResult(st.success_count, st.total_files),
     s3 |-> st.s3, disk |-> st.disk, writes |-> st.writes]

\* process_ticker once the monthly data is at hand.
ProcessBuckets(ticker, monthly_data, faults, store, files) ==
    ProcessReturn(SaveAll(ticker, monthly_data, faults, DOMAIN monthly_data,
                          [total_files |-> 0, success_count |-> 0, s3 |-> store,
                           disk |-> files, writes |-> {}]))

\* A process_ticker that empties the store and the disk when there is no data.
ProcessTickerClearingStore(ticker, resp, faults, offset, store, files) ==
    IF _get_polygon_data(resp) # None
    THEN ProcessBuckets(ticker, Buckets(ticker, resp, offset), faults, store, files)
    ELSE [ret |-> FALSE, s3 |-> <<>>, disk |-> {}, writes |-> {}]

\* IncrementalOHLCVPipeline.process_ticker: its return value and its effects.
process_ticker(ticker, resp, faults, offset, store, files) ==
    IF _get_polygon_data(resp) # None
    THEN ProcessBuckets(ticker, Buckets(ticker, resp, offset), faults, store, files)
    ELSE [ret |-> FALSE, s3 |-> store, disk |-> files, writes |-> {}]

(***************************************************************************)
(* IncrementalOHLCVPipeline.run                                            *)
(***************************************************************************)

\* The dates datetime.now() may give in the iterations of the planning loop:
\* no earlier than the clock, never going back, at most MaxTicks past today.
NowChoices ==
    {f \in [1..Len(tickers) -> clock..(today + MaxTicks)] :
        \A k \in 1..(Len(tickers) - 1) : f[k] <= f[k + 1]}

\* A loop that never waits.
NoRateLimitWait(position) == 0

\* The wait of the loop's  if i > 1: time.sleep(self.RATE_LIMIT_DELAY)  in the
\* iteration at the given position (from 1).
rate_limit_wait(position) == IF position > 1 THEN RATE_LIMIT_DELAY ELSE 0

\* The time at which the iteration at the given position calls process_ticker:
\* time.sleep returns no earlier than asked, lag later at most.
FetchAt(position, lag) ==
    mono + rate_limit_wait(position) + (IF position > 1 THEN lag ELSE 0)

\* Step 1 of run(): get_ticker_date_ranges.  Listing the tickers may raise,
\* which ends the run; an empty plan ends it too.
RunPlan ==
    /\ pipeline = "incremental"
    /\ pc = "start"
    /\ \E listOk \in BOOLEAN, raised \in SUBSET Range(tickers), nowAt \in NowChoices :
         IF listOk
         THEN \E plan \in {get_ticker_date_ranges(raised, nowAt)} :
                  /\ ticker_ranges' = plan
                  /\ queryRaised' = raised
                  /\ clock' = nowAt[Len(tickers)]
                  /\ pc' = IF Len(plan) = 0 THEN "done" ELSE "s3init"
         ELSE /\ pc' = "raised"
              /\ UNCHANGED <<ticker_ranges, queryRaised, clock>>
    /\ UNCHANGED <<today, host, stores, END_DATE, i, successful_tickers, failed_tickers,
                   fetchLog, writeLog, lost, run, partVars, fixedVars, mono, lastWrite,
                   toolVars>>

\* Step 2 of run(): _initialize_s3_client, which raises when the bucket
\* cannot be reached (the same step in the comprehensive pipeline).
RunInitS3 ==
    /\ pc = "s3init"
    /\ \E ok \in BOOLEAN : pc' = IF ok THEN "loop" ELSE "raised"
    /\ UNCHANGED <<clock, today, host, stores, END_DATE, ticker_ranges, i,
                   successful_tickers, failed_tickers, history, lost, run,
                   partVars, fixedVars, mono, lastWrite, toolVars>>

\* A loop that stays at a ticker that failed, to process it again.
RunProcessRetrying ==
    /\ pipeline = "incremental"
    /\ pc = "loop"
    /\ i < Len(ticker_ranges)
    /\ \E rng \in {ticker_ranges[i + 1]}, resp \in RunResponses :
           \E faults \in [DOMAIN Buckets(rng.ticker, resp, tz) -> WriteFaults] :
           \E r \in {process_ticker(rng.ticker, resp, faults, tz, s3, disk)} :
           \E lag \in 0..jitter, busy \in 0..jitter :
                 /\ mono' = FetchAt(i + 1, lag) + busy
                 /\ s3' = r.s3
                 /\ disk' = r.disk
                 /\ successful_tickers' = successful_tickers + (IF r.ret THEN 1 ELSE 0)
                 /\ failed_tickers' = IF r.ret THEN failed_tickers
                                      ELSE Append(failed_tickers, rng.ticker)
                 /\ fetchLog' = Append(fetchLog,
                        [ticker     |-> rng.ticker,
                         start_date |-> rng.start_date,
                         end_date   |-> rng.end_date,
                         upstream   |-> UpstreamOutcome(resp),
                         returned   |-> _get_polygon_data(resp),
                         months     |-> DOMAIN Buckets(rng.ticker, resp, tz),
                         waited     |-> FetchAt(i + 1, lag) - mono,
                         at         |-> FetchAt(i + 1, lag)])
                 /\ writeLog' = writeLog \cup r.writes
    /\ i' = IF Len(failed_tickers') > Len(failed_tickers) THEN i ELSE i + 1
    /\ UNCHANGED <<clock, today, host, warehouse, END_DATE, pc, ticker_ranges,
                   queryRaised, lost, run, partVars, fixedVars, lastWrite, toolVars>>

\* A loop that counts every processed ticker as successful.
RunProcessCountingEvery ==
    /\ pipeline = "incremental"
    /\ pc = "loop"
    /\ i < Len(ticker_ranges)
    /\ \E rng \in {ticker_ranges[i + 1]}, resp \in RunResponses :
           \E faults \in [DOMAIN Buckets(rng.ticker, resp, tz) -> WriteFaults] :
           \E r \in {process_ticker(rng.ticker, resp, faults, tz, s3, disk)} :
           \E lag \in 0..jitter, busy \in 0..jitter :
                 /\ mono' = FetchAt(i + 1, lag) + busy
                 /\ s3' = r.s3
                 /\ disk' = r.disk
                 /\ successful_tickers' = successful_tickers + 1
                 /\ failed_tickers' = IF r.ret THEN failed_tickers
                                      ELSE Append(failed_tickers, rng.ticker)
                 /\ fetchLog' = Append(fetchLog,
                        [ticker     |-> rng.ticker,
                         start_date |-> rng.start_date,
                         end_date   |-> rng.end_date,
                         upstream   |-> UpstreamOutcome(resp),
                         returned   |-> _get_polygon_data(resp),
                         months     |-> DOMAIN Buckets(rng.ticker, resp, tz),
                         waited     |-> FetchAt(i + 1, lag) - mono,
                         at         |-> FetchAt(i + 1, lag)])
                 /\ writeLog' = writeLog \cup r.writes
    /\ i' = i + 1
    /\ UNCHANGED <<clock, today, host, warehouse, END_DATE, pc, ticker_ranges,
                   queryRaised, lost, run, partVars, fixedVars, lastWrite, toolVars>>

\* One iteration of the loop of step 3: process_ticker for the next planned
\* ticker, counted as successful or appended to failed_tickers.
RunProcess ==
    /\ pipeline = "incremental"
    /\ pc = "loop"
    /\ i < Len(ticker_ranges)
    /\ \E rng \in {ticker_ranges[i + 1]}, resp \in RunResponses :
           \E faults \in [DOMAIN Buckets(rng.ticker, resp, tz) -> WriteFaults] :
           \E r \in {process_ticker(rng.ticker, resp, faults, tz, s3, disk)} :
           \E lag \in 0..jitter, busy \in 0..jitter :
                 /\ mono' = FetchAt(i + 1, lag) + busy
                 /\ s3' = r.s3
                 /\ disk' = r.disk
                 /\ successful_tickers' = successful_tickers + (IF r.ret THEN 1 ELSE 0)
                 /\ failed_tickers' = IF r.ret THEN failed_tickers
                                      ELSE Append(failed_tickers, rng.ticker)
                 /\ fetchLog' = Append(fetchLog,
                        [ticker     |-> rng.ticker,
                         start_date |-> rng.start_date,
                         end_date   |-> rng.end_date,
                         upstream   |-> UpstreamOutcome(resp),
                         returned   |-> _get_polygon_data(resp),
                         months     |-> DOMAIN Buckets(rng.ticker, resp, tz),
                         waited     |-> FetchAt(i + 1, lag) - mono,
                         at         |-> FetchAt(i + 1, lag)])
                 /\ writeLog' = writeLog \cup r.writes
    /\ i' = i + 1
    /\ UNCHANGED <<clock, today, host, warehouse, END_DATE, pc, ticker_ranges,
                   queryRaised, lost, run, partVars, fixedVars, lastWrite, toolVars>>

\* A loop that is left as soon as a fetch has raised.
RunSummaryAfterFailedFetch ==
    /\ pipeline = "incremental"
    /\ pc = "loop"
    /\ i = Len(ticker_ranges) \/ (i > 0 /\ fetchLog[i].upstream = "Error")
    /\ \E ok \in BOOLEAN : pc' = IF ok THEN "done" ELSE "raised"
    /\ UNCHANGED <<clock, today, host, stores, END_DATE, ticker_ranges, i,
                   successful_tickers, failed_tickers, history, lost, run,
                   partVars, fixedVars, mono, lastWrite, toolVars>>

\* A summary reached from any position of the loop.
RunSummaryAtAnyPosition ==
    /\ pipeline = "incremental"
    /\ pc = "loop"
    /\ \E ok \in BOOLEAN : pc' = IF ok THEN "done" ELSE "raised"
    /\ UNCHANGED <<clock, today, host, stores, END_DATE, ticker_ranges, i,
                   successful_tickers, failed_tickers, history, lost, run,
                   partVars, fixedVars, mono, lastWrite, toolVars>>

\* Step 4 of run(): the summary, which lists the tickers once more (and so
\* may raise), then the finally block.
RunSummary ==
    /\ pipeline = "incremental"
    /\ pc = "loop"
    /\ i = Len(ticker_ranges)
    /\ \E ok \in BOOLEAN : pc' = IF ok THEN "done" ELSE "raised"
    /\ UNCHANGED <<clock, today, host, stores, END_DATE, ticker_ranges, i,
                   successful_tickers, failed_tickers, history, lost, run,
                   partVars, fixedVars, mono, lastWrite, toolVars>>

\* A midnight at which the end date is computed anew.
TickAdvancingCutoff ==
    /\ clock < today + MaxTicks
    /\ clock' = clock + 1
    /\ END_DATE' = EndDateOf(clock + 1)
    /\ UNCHANGED <<today, host, stores, pc, ticker_ranges, i, successful_tickers,
                   failed_tickers, history, lost, run, partVars, fixedVars,
                   mono, lastWrite, toolVars>>

\* Midnight passes on the host.
Tick ==
    /\ clock < today + MaxTicks
    /\ clock' = clock + 1
    /\ UNCHANGED <<today, host, stores, runState, history, lost, run, partVars, fixedVars,
                   mono, lastWrite, toolVars>>

(***************************************************************************)
(* One run of the incremental pipeline                                     *)
(***************************************************************************)

\* The high-water marks the warehouse may hold per ticker when a run starts:
\* none, 2024-02-28, or 2024-03-07.
InitialMaxDates == {None, <<19781>>, <<19789>>}

WarehouseOf(hwm) ==
    {[TICKER |-> t, OHLC_DATE |-> hwm[t][1]] : t \in {u \in DOMAIN hwm : hwm[u] # None}}

\* The state a freshly constructed pipeline starts from, on day d.
Constructed(d) ==
    /\ today = d
    /\ END_DATE = EndDateOf(d)
    /\ pc = "start"
    /\ ticker_ranges = <<>>
    /\ i = 0
    /\ successful_tickers = 0
    /\ failed_tickers = <<>>
    /\ queryRaised = {}
    /\ fetchLog = <<>>
    /\ writeLog = {}
    /\ mono = 0

\* The variables of the partitioner and fixed-pipeline specifications, unused.
NoPartition == body_in = <<>> /\ by_month = <<>> /\ by_year = <<>>
NoFixed     == month_idx = 0 /\ month_successes = 0 /\ fixedLog = <<>>

\* The variable of the writer specification, unused.
NoWriter    == lastWrite = <<>>

\* The variables of the range generator and of the verification wrapper, unused.
NoTools ==
    /\ range_in = <<>>
    /\ ranges_out = <<>>
    /\ vpc = "off"
    /\ pipeline_code = 0
    /\ verification_results = <<>>
    /\ overall_status = ""
    /\ verification_code = 0
    /\ final_exit_code = 0

\* A first run over the given ticker symbols, constructed on one of days, the
\* warehouse holding one of the high-water marks hwms for each, on a host
\* with one of the UTC offsets and the given overrun.
InitAt(symbols, days, hwms, offsets, overrun) ==
    /\ tickers = symbols
    /\ pipeline = "incremental"
    /\ tz \in offsets
    /\ jitter = overrun
    /\ \E d \in days : clock = d /\ Constructed(d)
    /\ \E hwm \in [Range(symbols) -> hwms] : warehouse = WarehouseOf(hwm)
    /\ s3 = <<>>
    /\ disk = {}
    /\ lost = {}
    /\ run = 1
    /\ NoPartition
    /\ NoFixed
    /\ NoWriter
    /\ NoTools

\* The same on a host in UTC on which nothing overruns.
InitWith(symbols, days, hwms) == InitAt(symbols, days, hwms, {0}, 0)

Init == InitWith(<<"AAPL", "MSFT">>, {FirstDay}, InitialMaxDates)

Next == RunPlan \/ RunInitS3 \/ RunProcess \/ RunSummary \/ Tick

Spec == Init /\ [][Next]_vars

\* The variables of the range generator, unused.
NoRanges == range_in = <<>> /\ ranges_out = <<>>

\* The variables of the verification wrapper, unused.
NoVerify ==
    /\ vpc = "off"
    /\ pipeline_code = 0
    /\ verification_results = <<>>
    /\ overall_status = ""
    /\ verification_code = 0
    /\ final_exit_code = 0

\* The variables of the pipelines' runs while no pipeline runs, the program
\* standing at the given position.
NoRun(position) ==
    /\ tickers = <<"AAPL">>
    /\ pipeline = "incremental"
    /\ jitter = 0
    /\ mono = 0
    /\ tz = 0
    /\ clock = FirstDay
    /\ today = FirstDay
    /\ END_DATE = EndDateOf(FirstDay)
    /\ pc = position
    /\ ticker_ranges = <<>>
    /\ i = 0
    /\ successful_tickers = 0
    /\ failed_tickers = <<>>
    /\ queryRaised = {}
    /\ fetchLog = <<>>
    /\ writeLog = {}
    /\ warehouse = {}
    /\ s3 = <<>>
    /\ disk = {}
    /\ lost = {}
    /\ run = 1
    /\ NoPartition
    /\ NoFixed
    /\ NoWriter

(***************************************************************************)
(* One run whose calls all return                                          *)
(***************************************************************************)

\* The steps of run(): the program is sequential, so the step it stands at is
\* taken once the call it waits for has returned or raised.
NextStep == RunPlan \/ RunInitS3 \/ RunProcess \/ RunSummary

\* Two tickers, each without rows in the warehouse or current already.
InitLive == InitWith(<<"AAPL", "MSFT">>, {FirstDay}, {None, <<19789>>})

SpecLive == InitLive /\ [][Next]_vars /\ WF_vars(NextStep)

(***************************************************************************)
(* One run constructed on a Monday                                         *)
(***************************************************************************)

\* Two tickers, constructed on Monday 2024-03-04; the midnight that may pass
\* leads to a day whose end date would be another one.
InitMidnight == InitWith(<<"AAPL", "MSFT">>, {FirstDay + 2}, {None, <<19781>>})

SpecMidnight == InitMidnight /\ [][Next]_vars

(***************************************************************************)
(* Planning on every day of the week                                       *)
(***************************************************************************)

\* The high-water marks of SpecPlan: those of Spec, and 2024-02-29, the day
\* before the cutoff date of a run constructed on 2024-03-02 or 2024-03-03.
PlanMaxDates == InitialMaxDates \cup {<<19782>>}

InitPlan == InitWith(<<"AAPL", "MSFT">>, FirstDay..(FirstDay + StartDays - 1),
                     PlanMaxDates)

NextPlan == RunPlan \/ Tick

SpecPlan == InitPlan /\ [][NextPlan]_vars

(***************************************************************************)
(* The scheduled pipeline: runs with bulk loads in between                 *)
(***************************************************************************)

\* COPY INTO sp500_top10_sector_ohlcv_itbl FROM the stage (PURGE = FALSE):
\* the rows of every staged artifact are in the table afterwards.
BulkLoad ==
    /\ pc \in {"done", "raised"}
    /\ warehouse' = warehouse \cup
          {[TICKER |-> row.TICKER, OHLC_DATE |-> row.OHLC_DATE] :
              row \in UNION {Range(s3[key]) : key \in DOMAIN s3}}
    /\ warehouse' # warehouse
    /\ UNCHANGED <<clock, today, host, s3, disk, runState, history, lost, run,
                   partVars, fixedVars, mono, lastWrite, toolVars>>

\* The buckets of the run that ends whose write failed without an upload while
\* another bucket of the same ticker was uploaded, with the dates of their
\* rows that lie in the window the run requested.
LostBuckets ==
    {[ticker |-> w.ticker,
      dates  |-> {d \in w.dates :
                    \E k \in DOMAIN fetchLog :
                       /\ fetchLog[k].ticker = w.ticker
                       /\ ~StrGT(fetchLog[k].start_date, strftime(d))
                       /\ ~StrGT(strftime(d), fetchLog[k].end_date)}] :
        w \in {v \in writeLog :
                 /\ ~v.uploaded
                 /\ \E o \in writeLog : o.ticker = v.ticker /\ o.month # v.month
                                        /\ o.uploaded}}

\* main(): the scheduler starts the pipeline again; a new object is constructed.
NewRun ==
    /\ pc \in {"done", "raised"}
    /\ run < MaxRuns
    /\ run' = run + 1
    /\ lost' = LostBuckets
    /\ today' = clock
    /\ END_DATE' = EndDateOf(clock)
    /\ pc' = "start"
    /\ ticker_ranges' = <<>>
    /\ i' = 0
    /\ successful_tickers' = 0
    /\ failed_tickers' = <<>>
    /\ queryRaised' = {}
    /\ fetchLog' = <<>>
    /\ writeLog' = {}
    /\ mono' = 0
    /\ UNCHANGED <<clock, host, stores, partVars, fixedVars, lastWrite, toolVars>>

InitSchedule == InitWith(<<"AAPL">>, {FirstDay}, {None, <<19781>>})

NextSchedule == Next \/ BulkLoad \/ NewRun

SpecSchedule == InitSchedule /\ [][NextSchedule]_vars

(***************************************************************************)
(* ComprehensiveOHLCVPipeline: every ticker, two years, one file per year  *)
(***************************************************************************)

\* Timestamps of the bodies handed to the partitioners of SpecPartition:
\* 05:00 UTC of 2023-01-31, 2023-12-29, 2024-01-02 and 2024-01-31.
PartTimes == {19388 * HoursPerDay + 5, 19720 * HoursPerDay + 5,
              19724 * HoursPerDay + 5, 19753 * HoursPerDay + 5}

\* Timestamps the upstream may return to the comprehensive pipeline: 05:00
\* UTC of 2023-12-29, 2024-01-02 and 2024-03-01 (the last one a bar the
\* upstream returns to the other pipelines as well).
ComprehensiveTimes == {19720 * HoursPerDay + 5, 19724 * HoursPerDay + 5,
                       19783 * HoursPerDay + 5}

ComprehensiveResponses == Responses(ComprehensiveTimes, MaxBars)

\* The yearly buckets the comprehensive process_ticker builds from a response.
YearBuckets(ticker, resp, offset) ==
    IF _get_polygon_data(resp) # None
    THEN _process_data_by_year(ticker, _get_polygon_data(resp)[1], offset)
    ELSE <<>>

\* ComprehensiveOHLCVPipeline.process_ticker: its return value and its effects.
comprehensive_process_ticker(ticker, resp, faults, offset, store, files) ==
    IF _get_polygon_data(resp) # None
    THEN ProcessBuckets(ticker, YearBuckets(ticker, resp, offset), faults, store, files)
    ELSE [ret |-> FALSE, s3 |-> store, disk |-> files, writes |-> {}]

\* Step 1 of the comprehensive run(): the tickers are listed (which may
\* raise); each is processed for START_DATE .. END_DATE, now() - 730 days and
\* now() at construction.
ComprehensiveStart ==
    /\ pipeline = "comprehensive"
    /\ pc = "start"
    /\ \E listOk \in BOOLEAN :
         IF listOk
         THEN /\ ticker_ranges' = [k \in DOMAIN tickers |->
                     [ticker     |-> tickers[k],
                      start_date |-> strftime(today - LOOKBACK_DAYS),
                      end_date   |-> END_DATE]]
              /\ pc' = IF Len(tickers) = 0 THEN "done" ELSE "s3init"
         ELSE /\ pc' = "raised"
              /\ UNCHANGED ticker_ranges
    /\ UNCHANGED <<clock, today, host, stores, END_DATE, i, successful_tickers,
                   failed_tickers, history, lost, run, partVars, fixedVars,
                   mono, lastWrite, toolVars>>

\* One iteration of the loop of the comprehensive run().
ComprehensiveProcess ==
    /\ pipeline = "comprehensive"
    /\ pc = "loop"
    /\ i < Len(ticker_ranges)
    /\ \E rng \in {ticker_ranges[i + 1]}, resp \in ComprehensiveResponses :
           \E faults \in [DOMAIN YearBuckets(rng.ticker, resp, tz) -> WriteFaults] :
           \E r \in {comprehensive_process_ticker(rng.ticker, resp, faults, tz, s3, disk)} :
           \E lag \in 0..jitter, busy \in 0..jitter :
                 /\ mono' = FetchAt(i + 1, lag) + busy
                 /\ s3' = r.s3
                 /\ disk' = r.disk
                 /\ successful_tickers' = successful_tickers + (IF r.ret THEN 1 ELSE 0)
                 /\ failed_tickers' = IF r.ret THEN failed_tickers
                                      ELSE Append(failed_tickers, rng.ticker)
                 /\ fetchLog' = Append(fetchLog,
                        [ticker     |-> rng.ticker,
                         start_date |-> rng.start_date,
                         end_date   |-> rng.end_date,
                         upstream   |-> UpstreamOutcome(resp),
                         returned   |-> _get_polygon_data(resp),
                         months     |-> DOMAIN YearBuckets(rng.ticker, resp, tz),
                         waited     |-> FetchAt(i + 1, lag) - mono,
                         at         |-> FetchAt(i + 1, lag)])
                 /\ writeLog' = writeLog \cup r.writes
    /\ i' = i + 1
    /\ UNCHANGED <<clock, today, host, warehouse, END_DATE, pc, ticker_ranges,
                   queryRaised, lost, run, partVars, fixedVars, lastWrite, toolVars>>

\* Step 4 of the comprehensive run(): the summary (no query is made).
ComprehensiveSummary ==
    /\ pipeline = "comprehensive"
    /\ pc = "loop"
    /\ i = Len(ticker_ranges)
    /\ pc' = "done"
    /\ UNCHANGED <<clock, today, host, stores, END_DATE, ticker_ranges, i,
                   successful_tickers, failed_tickers, history, lost, run,
                   partVars, fixedVars, mono, lastWrite, toolVars>>

\* ComprehensiveOHLCVPipeline.__init__ on FirstDay: END_DATE is now(); the
\* host overruns by at most the given time.
InitComprehensiveAt(overrun) ==
    /\ tickers = <<"AAPL", "MSFT">>
    /\ pipeline = "comprehensive"
    /\ jitter = overrun
    /\ mono = 0
    /\ tz = 0
    /\ clock = FirstDay
    /\ today = FirstDay
    /\ END_DATE = strftime(FirstDay)
    /\ pc = "start"
    /\ ticker_ranges = <<>>
    /\ i = 0
    /\ successful_tickers = 0
    /\ failed_tickers = <<>>
    /\ queryRaised = {}
    /\ fetchLog = <<>>
    /\ writeLog = {}
    /\ warehouse = {}
    /\ s3 = <<>>
    /\ disk = {}
    /\ lost = {}
    /\ run = 1
    /\ NoPartition
    /\ NoFixed
    /\ NoWriter
    /\ NoTools

InitComprehensive == InitComprehensiveAt(0)

\* Either pipeline, each over two tickers.
InitPipelines ==
    \/ InitWith(<<"AAPL", "MSFT">>, {FirstDay}, {None})
    \/ InitComprehensive

NextPipelines ==
    \/ RunPlan \/ RunInitS3 \/ RunProcess \/ RunSummary \/ Tick
    \/ ComprehensiveStart \/ ComprehensiveProcess \/ ComprehensiveSummary

SpecPipelines == InitPipelines /\ [][NextPipelines]_vars

(***************************************************************************)
(* The rate limit: either pipeline on a host whose calls overrun           *)
(***************************************************************************)

\* Either pipeline over two tickers; a sleep and a call of process_ticker
\* take up to MaxLag half-seconds longer than they must.
InitRate ==
    \/ InitAt(<<"AAPL", "MSFT">>, {FirstDay}, {None}, {0}, MaxLag)
    \/ InitComprehensiveAt(MaxLag)

NextRate ==
    \/ RunPlan \/ RunInitS3 \/ RunProcess \/ RunSummary
    \/ ComprehensiveStart \/ ComprehensiveProcess \/ ComprehensiveSummary

SpecRate == InitRate /\ [][NextRate]_vars

(***************************************************************************)
(* The partitioners applied to one response body                           *)
(***************************************************************************)

\* UTC offsets of the host.
PartOffsets == {-6, 0}

\* The bodies handed to the partitioners: any rows in any order, at most
\* MaxRows of them, or no 'results' at all.
PartBodies ==
    {[status |-> "OK", results |-> rs] :
        rs \in {<<>>} \cup SeqsUpTo([t : PartTimes], MaxRows)}

InitPartition ==
    /\ tickers = <<"AAPL">>
    /\ pipeline = "incremental"
    /\ jitter = 0
    /\ mono = 0
    /\ tz \in PartOffsets
    /\ clock = FirstDay
    /\ today = FirstDay
    /\ END_DATE = EndDateOf(FirstDay)
    /\ pc = "partition"
    /\ ticker_ranges = <<>>
    /\ i = 0
    /\ successful_tickers = 0
    /\ failed_tickers = <<>>
    /\ queryRaised = {}
    /\ fetchLog = <<>>
    /\ writeLog = {}
    /\ warehouse = {}
    /\ s3 = <<>>
    /\ disk = {}
    /\ lost = {}
    /\ run = 1
    /\ body_in \in PartBodies
    /\ by_month = <<>>
    /\ by_year = <<>>
    /\ NoFixed
    /\ NoWriter
    /\ NoTools

\* _process_data_by_month applied to the body.
PartitionByMonth ==
    /\ pc = "partition"
    /\ by_month = <<>>
    /\ by_month' = <<_process_data_by_month(tickers[1], body_in, tz)>>
    /\ UNCHANGED <<clock, today, host, stores, runState, history, lost, run,
                   body_in, by_year, fixedVars, mono, lastWrite, toolVars>>

\* _process_data_by_year applied to the body.
PartitionByYear ==
    /\ pc = "partition"
    /\ by_year = <<>>
    /\ by_year' = <<_process_data_by_year(tickers[1], body_in, tz)>>
    /\ UNCHANGED <<clock, today, host, stores, runState, history, lost, run,
                   body_in, by_month, fixedVars, mono, lastWrite, toolVars>>

NextPartition == PartitionByMonth \/ PartitionByYear

SpecPartition == InitPartition /\ [][NextPartition]_vars

(***************************************************************************)
(* FixedProductionOHLCVPipeline: three tickers, one request per month      *)
(***************************************************************************)

FIXED_START_DATE == <<2024, 1, 1>>
FIXED_END_DATE   == <<2024, 12, 31>>
FIXED_TICKERS    == <<"AAPL", "MSFT", "GOOGL">>

\* current_date.replace(...): the first day of the month after that of day n.
NextMonthStart(n) ==
    IF strftime(n)[2] = 12
    THEN strptime(<<strftime(n)[1] + 1, 1, 1>>)
    ELSE strptime(<<strftime(n)[1], strftime(n)[2] + 1, 1>>)

\* A month_end that is never cut at the end date.
MonthEndUncut(a, b) == a

\* month_end, cut at end_date:  if month_end > end_date: month_end = end_date
Min(a, b) == IF a <= b THEN a ELSE b

\* The while loop of _generate_monthly_ranges from current_date on.
RECURSIVE MonthlyRangesFrom(_, _, _)
MonthlyRangesFrom(current_date, end_date, date_ranges) ==
    IF current_date > end_date THEN date_ranges
    ELSE MonthlyRangesFrom(NextMonthStart(current_date), end_date,
            Append(date_ranges,
                   [month_key  |-> <<strftime(current_date)[1], strftime(current_date)[2]>>,
                    start_date |-> strftime(current_date),
                    end_date   |-> strftime(Min(NextMonthStart(current_date) - 1,
                                                end_date))]))

\* FixedProductionOHLCVPipeline._generate_monthly_ranges
_generate_monthly_ranges ==
    MonthlyRangesFrom(strptime(FIXED_START_DATE), strptime(FIXED_END_DATE), <<>>)

\* The bars the market of SpecFixed holds: 2024-02-29 05:00 and 2024-03-01
\* 05:00 UTC.  With bars in two months only, no ticker has a file written
\* for each of its twelve months, so process_ticker returns False for each.
FixedMarketTimes == {19782 * HoursPerDay + 5, 19783 * HoursPerDay + 5}

\* What the upstream may answer to a request for start_date .. end_date: it
\* raises, has no data, or delivers bars dated in the window or on the day
\* before or after it.
FixedResponsesFor(start_date, end_date) ==
    Responses({t \in FixedMarketTimes :
                  /\ strptime(start_date) - 1 <= t \div HoursPerDay
                  /\ t \div HoursPerDay <= strptime(end_date) + 1},
              MaxBars)

\* The dates of the rows of a frame (none for None).
DatesOf(df) == {df[n].OHLC_DATE : n \in DOMAIN df}

\* An iteration that saves the file whatever month_df is.
FixedSaveAlways(ticker, month_key, month_df, fault, store, files) ==
    [counted |-> _save_and_upload_to_s3(ticker, month_key, month_df, fault,
                                        store, files).ok,
     s3      |-> _save_and_upload_to_s3(ticker, month_key, month_df, fault,
                                        store, files).s3,
     disk    |-> _save_and_upload_to_s3(ticker, month_key, month_df, fault,
                                        store, files).disk,
     kept    |-> DatesOf(month_df)]

\* The end of one iteration of the month loop once month_df is at hand: the
\* file is saved when month_df is not None, and counted when that succeeds.
FixedSave(ticker, month_key, month_df, fault, store, files) ==
    IF month_df = None
    THEN [counted |-> FALSE, s3 |-> store, disk |-> files, kept |-> {}]
    ELSE [counted |-> _save_and_upload_to_s3(ticker, month_key, month_df, fault,
                                             store, files).ok,
          s3      |-> _save_and_upload_to_s3(ticker, month_key, month_df, fault,
                                             store, files).s3,
          disk    |-> _save_and_upload_to_s3(ticker, month_key, month_df, fault,
                                             store, files).disk,
          kept    |-> DatesOf(month_df)]

\* One iteration of the month loop of the fixed process_ticker.
FixedMonthStep(ticker, month_key, resp, fault, offset, store, files) ==
    IF _get_polygon_data(resp) = None
    THEN [counted |-> FALSE, s3 |-> store, disk |-> files, kept |-> {}]
    ELSE FixedSave(ticker, month_key,
                   _process_month_data(ticker, _get_polygon_data(resp)[1],
                                       month_key, offset),
                   fault, store, files)

\* The dates of the rows a response delivers, in local time.
ReturnedDates(resp, offset) ==
    IF _get_polygon_data(resp) = None THEN {}
    ELSE {fromtimestamp(_get_polygon_data(resp)[1].results[n].t, offset) :
             n \in DOMAIN _get_polygon_data(resp)[1].results}

\* FixedProductionOHLCVPipeline.process_ticker, one month of the loop.
FixedMonth ==
    /\ pipeline = "fixed"
    /\ pc = "loop"
    /\ i < Len(tickers)
    /\ month_idx < Len(_generate_monthly_ranges)
    /\ \E rng \in {_generate_monthly_ranges[month_idx + 1]}, fault \in WriteFaults :
       \E resp \in FixedResponsesFor(rng.start_date, rng.end_date) :
       \E r \in {FixedMonthStep(tickers[i + 1], rng.month_key, resp, fault, tz, s3, disk)} :
           /\ s3' = r.s3
           /\ disk' = r.disk
           /\ month_successes' = month_successes + (IF r.counted THEN 1 ELSE 0)
           /\ fixedLog' = <<[ticker    |-> tickers[i + 1],
                             month_key |-> rng.month_key,
                             returned  |-> ReturnedDates(resp, tz),
                             kept      |-> r.kept]>>
    /\ month_idx' = month_idx + 1
    /\ \E lag \in 0..jitter, busy \in 0..jitter :
           mono' = mono + RATE_LIMIT_DELAY + lag + busy
    /\ UNCHANGED <<clock, today, host, warehouse, runState, history, lost, run, partVars,
                   lastWrite, toolVars>>

\* The end of the fixed process_ticker and the bookkeeping of run()'s loop.
FixedTickerDone ==
    /\ pipeline = "fixed"
    /\ pc = "loop"
    /\ i < Len(tickers)
    /\ month_idx = Len(_generate_monthly_ranges)
    /\ IF ProcessResult(month_successes, month_idx)
       THEN /\ successful_tickers' = successful_tickers + 1
            /\ UNCHANGED failed_tickers
       ELSE /\ failed_tickers' = Append(failed_tickers, tickers[i + 1])
            /\ UNCHANGED successful_tickers
    /\ i' = i + 1
    /\ month_idx' = 0
    /\ month_successes' = 0
    /\ UNCHANGED <<clock, today, host, stores, END_DATE, pc, ticker_ranges, history,
                   lost, run, partVars, fixedLog, mono, lastWrite, toolVars>>

\* The summary of the fixed run().
FixedSummary ==
    /\ pipeline = "fixed"
    /\ pc = "loop"
    /\ i = Len(tickers)
    /\ pc' = "done"
    /\ UNCHANGED <<clock, today, host, stores, END_DATE, ticker_ranges, i,
                   successful_tickers, failed_tickers, history, lost, run,
                   partVars, fixedVars, mono, lastWrite, toolVars>>

\* FixedProductionOHLCVPipeline.__init__; run() begins with the S3 client.
InitFixed ==
    /\ tickers = FIXED_TICKERS
    /\ pipeline = "fixed"
    /\ jitter = 0
    /\ mono = 0
    /\ tz = 0
    /\ clock = FirstDay
    /\ today = FirstDay
    /\ END_DATE = FIXED_END_DATE
    /\ pc = "s3init"
    /\ ticker_ranges = <<>>
    /\ i = 0
    /\ successful_tickers = 0
    /\ failed_tickers = <<>>
    /\ queryRaised = {}
    /\ fetchLog = <<>>
    /\ writeLog = {}
    /\ warehouse = {}
    /\ s3 = <<>>
    /\ disk = {}
    /\ lost = {}
    /\ run = 1
    /\ NoPartition
    /\ NoFixed
    /\ NoWriter
    /\ NoTools

NextFixed == RunInitS3 \/ FixedMonth \/ FixedTickerDone \/ FixedSummary

SpecFixed == InitFixed /\ [][NextFixed]_vars

(***************************************************************************)
(* The monthly writers: the fixed or the incremental pipeline              *)
(***************************************************************************)

InitEmit == InitFixed \/ InitSchedule

NextEmit ==
    \/ RunPlan \/ RunInitS3 \/ RunProcess \/ RunSummary \/ Tick
    \/ FixedMonth \/ FixedTickerDone \/ FixedSummary

SpecEmit == InitEmit /\ [][NextEmit]_vars

(***************************************************************************)
(* VectorizedScannerTestPipeline: every ticker, one file for the range     *)
(***************************************************************************)

VEC_START_DATE == <<2023, 8, 1>>
VEC_END_DATE   == <<2025, 8, 29>>

\* VectorizedScannerTestPipeline._generate_date_ranges: the same loop as
\* _generate_monthly_ranges (the month_key is not part of its tuples).
_generate_date_ranges ==
    MonthlyRangesFrom(strptime(VEC_START_DATE), strptime(VEC_END_DATE), <<>>)

\* The monthly requests to which the upstream has bars to deliver; to every
\* other request it answers without data or raises, and nothing is appended
\* to all_dataframes.
BusyRanges ==
    {k \in DOMAIN _generate_date_ranges :
        \E resp \in FixedResponsesFor(_generate_date_ranges[k].start_date,
                                      _generate_date_ranges[k].end_date) :
            UpstreamOutcome(resp) = "Ok"}

\* What the upstream may answer to those requests of one process_ticker.
VectorizedAnswers ==
    {f \in [BusyRanges -> Responses(FixedMarketTimes, MaxBars)] :
        \A k \in BusyRanges :
            f[k] \in FixedResponsesFor(_generate_date_ranges[k].start_date,
                                       _generate_date_ranges[k].end_date)}

\* VectorizedScannerTestPipeline._process_data_to_dataframe
_process_data_to_dataframe(ticker, data, offset) ==
    IF data.results = <<>> THEN None ELSE ToDataFrame(ticker, data.results, offset)

\* The rows one request adds to all_dataframes (none without data).
FrameOf(ticker, resp, offset) ==
    IF _get_polygon_data(resp) = None THEN <<>>
    ELSE _process_data_to_dataframe(ticker, _get_polygon_data(resp)[1], offset)

MinOf(S) == CHOOSE m \in S : \A o \in S : m <= o

\* pd.concat(all_dataframes) over the requests left, in the order of the loop.
RECURSIVE AllDataframes(_, _, _, _, _)
AllDataframes(ticker, answers, left, offset, acc) ==
    IF left = {} THEN acc
    ELSE AllDataframes(ticker, answers, left \ {MinOf(left)}, offset,
                       acc \o FrameOf(ticker, answers[MinOf(left)], offset))

\* combined_df.sort_values('OHLC_DATE').reset_index(drop=True); rows of one
\* date are kept in the order they have.
RECURSIVE SortByDate(_)
SortFrom(df, d) ==
    SelectSeq(df, LAMBDA row : row.OHLC_DATE = d) \o
    SortByDate(SelectSeq(df, LAMBDA row : row.OHLC_DATE # d))

SortByDate(df) == IF df = <<>> THEN <<>> ELSE SortFrom(df, MinOf(DatesOf(df)))

\* What process_ticker returns and leaves once r is the result of the writer.
VectorizedReturn(ticker, combined_df, fault, r) ==
    [ret |-> r.ok, s3 |-> r.s3, disk |-> r.disk,
     writes |-> {[ticker   |-> ticker,
                  month    |-> FlatPeriod,
                  ok       |-> r.ok,
                  uploaded |-> fault \in {"none", "remove", "remove_retry"},
                  dates    |-> DatesOf(combined_df)]}]

\* The end of process_ticker: one file for the range, if there is any row.
VectorizedSave(ticker, combined_df, fault, store, files) ==
    IF combined_df = <<>>
    THEN [ret |-> FALSE, s3 |-> store, disk |-> files, writes |-> {}]
    ELSE VectorizedReturn(ticker, combined_df, fault,
             _save_and_upload_to_s3_flat(ticker, combined_df, fault, store, files))

\* VectorizedScannerTestPipeline.process_ticker: its return value and effects.
vectorized_process_ticker(ticker, answers, fault, offset, store, files) ==
    VectorizedSave(ticker,
                   SortByDate(AllDataframes(ticker, answers, BusyRanges, offset, <<>>)),
                   fault, store, files)

\* What the upstream did over the requests of one process_ticker.
VectorizedUpstream(answers) ==
    IF \E k \in DOMAIN answers : UpstreamOutcome(answers[k]) = "Ok" THEN "Ok"
    ELSE IF \E k \in DOMAIN answers : UpstreamOutcome(answers[k]) = "Error" THEN "Error"
    ELSE "NoData"

\* Step 1 of the vectorized run(): the tickers are listed (which may raise);
\* each is processed for START_DATE .. END_DATE.
VectorizedStart ==
    /\ pipeline = "vectorized"
    /\ pc = "start"
    /\ \E listOk \in BOOLEAN :
         IF listOk
         THEN /\ ticker_ranges' = [k \in DOMAIN tickers |->
                     [ticker     |-> tickers[k],
                      start_date |-> VEC_START_DATE,
                      end_date   |-> VEC_END_DATE]]
              /\ pc' = IF Len(tickers) = 0 THEN "done" ELSE "s3init"
         ELSE /\ pc' = "raised"
              /\ UNCHANGED ticker_ranges
    /\ UNCHANGED <<clock, today, host, stores, END_DATE, i, successful_tickers,
                   failed_tickers, history, lost, run, partVars, fixedVars,
                   mono, lastWrite, toolVars>>

\* One iteration of the loop of the vectorized run(): process_ticker, which
\* sleeps before each of its monthly requests.
VectorizedProcess ==
    /\ pipeline = "vectorized"
    /\ pc = "loop"
    /\ i < Len(ticker_ranges)
    /\ \E rng \in {ticker_ranges[i + 1]}, answers \in VectorizedAnswers,
          fault \in WriteFaults :
           \E r \in {vectorized_process_ticker(rng.ticker, answers, fault, tz, s3, disk)} :
           \E lag \in 0..jitter :
                 /\ mono' = mono + Len(_generate_date_ranges) * RATE_LIMIT_DELAY + lag
                 /\ s3' = r.s3
                 /\ disk' = r.disk
                 /\ successful_tickers' = successful_tickers + (IF r.ret THEN 1 ELSE 0)
                 /\ failed_tickers' = IF r.ret THEN failed_tickers
                                      ELSE Append(failed_tickers, rng.ticker)
                 /\ fetchLog' = Append(fetchLog,
                        [ticker     |-> rng.ticker,
                         start_date |-> rng.start_date,
                         end_date   |-> rng.end_date,
                         upstream   |-> VectorizedUpstream(answers),
                         returned   |-> None,
                         months     |-> {w.month : w \in r.writes},
                         waited     |-> 0,
                         at         |-> mono])
                 /\ writeLog' = writeLog \cup r.writes
    /\ i' = i + 1
    /\ UNCHANGED <<clock, today, host, warehouse, END_DATE, pc, ticker_ranges,
                   queryRaised, lost, run, partVars, fixedVars, lastWrite, toolVars>>

\* The summary of the vectorized run().
VectorizedSummary ==
    /\ pipeline = "vectorized"
    /\ pc = "loop"
    /\ i = Len(ticker_ranges)
    /\ pc' = "done"
    /\ UNCHANGED <<clock, today, host, stores, END_DATE, ticker_ranges, i,
                   successful_tickers, failed_tickers, history, lost, run,
                   partVars, fixedVars, mono, lastWrite, toolVars>>

(***************************************************************************)
(* The pipelines one after another on the same bucket                      *)
(***************************************************************************)

\* The pipelines whose S3_BUCKET is 'sp500-top-10-sector-leaders-ohlcv-s3bkt'
\* and that list their tickers from Snowflake.
BucketPipelines == {"incremental", "comprehensive", "vectorized"}

\* self.END_DATE as __init__ of a pipeline sets it on the given day.
EndDateFor(p, day) ==
    IF p = "incremental" THEN EndDateOf(day)
    ELSE IF p = "comprehensive" THEN strftime(day)
    ELSE VEC_END_DATE

\* main() of one of the pipelines is started: a new object is constructed.
NewPipelineRun ==
    /\ pc \in {"done", "raised"}
    /\ run < MaxRuns
    /\ run' = run + 1
    /\ \E p \in BucketPipelines :
          /\ pipeline' = p
          /\ END_DATE' = EndDateFor(p, clock)
    /\ today' = clock
    /\ pc' = "start"
    /\ ticker_ranges' = <<>>
    /\ i' = 0
    /\ successful_tickers' = 0
    /\ failed_tickers' = <<>>
    /\ queryRaised' = {}
    /\ fetchLog' = <<>>
    /\ writeLog' = {}
    /\ mono' = 0
    /\ UNCHANGED <<clock, tz, tickers, jitter, stores, lost, partVars, fixedVars,
                   lastWrite, toolVars>>

\* Before the first run: an empty bucket and an empty table, one ticker.
InitBucket ==
    /\ tickers = <<"AAPL">>
    /\ pipeline = "incremental"
    /\ jitter = 0
    /\ mono = 0
    /\ tz = 0
    /\ clock = FirstDay
    /\ today = FirstDay
    /\ END_DATE = EndDateOf(FirstDay)
    /\ pc = "done"
    /\ ticker_ranges = <<>>
    /\ i = 0
    /\ successful_tickers = 0
    /\ failed_tickers = <<>>
    /\ queryRaised = {}
    /\ fetchLog = <<>>
    /\ writeLog = {}
    /\ warehouse = {}
    /\ s3 = <<>>
    /\ disk = {}
    /\ lost = {}
    /\ run = 0
    /\ NoPartition
    /\ NoFixed
    /\ NoWriter
    /\ NoTools

NextBucket ==
    \/ NewPipelineRun
    \/ RunPlan \/ RunInitS3 \/ RunProcess \/ RunSummary
    \/ ComprehensiveStart \/ ComprehensiveProcess \/ ComprehensiveSummary
    \/ VectorizedStart \/ VectorizedProcess \/ VectorizedSummary

SpecBucket == InitBucket /\ [][NextBucket]_vars

(***************************************************************************)
(* One run on hosts in and west of UTC                                     *)
(***************************************************************************)

\* One ticker whose high-water mark is 2024-02-28 or 2024-02-29, so that the
\* window requested starts on 2024-02-29 or on 2024-03-01.
InitWindow == InitAt(<<"AAPL">>, {FirstDay}, {<<19781>>, <<19782>>}, PartOffsets, 0)

SpecWindow == InitWindow /\ [][Next]_vars

(***************************************************************************)
(* The writers alone: calls of _save_and_upload_to_s3 on one bucket         *)
(***************************************************************************)

\* The periods SpecWriter writes under: a month and a year.
WriterPeriods == {<<2024, 3>>, <<2024>>}

\* The DataFrames handed to the writers in SpecWriter: the row of the bar of
\* 2024-03-01 05:00, alone or followed by the one of 06:00.
WriterFrames ==
    {ToDataFrame("AAPL", <<[t |-> 19783 * HoursPerDay + 5]>>, 0),
     ToDataFrame("AAPL", <<[t |-> 19783 * HoursPerDay + 5],
                           [t |-> 19783 * HoursPerDay + 6]>>, 0)}

\* lastWrite after one more call: the call before it and the call itself.
WriteRecord(ticker, period, df, fault, r) ==
    (IF lastWrite = <<>> THEN <<>> ELSE <<lastWrite[Len(lastWrite)]>>) \o
    <<[ticker |-> ticker, period |-> period, df |-> df, fault |-> fault, ok |-> r.ok]>>

\* A call of _save_and_upload_to_s3 (monthly or yearly key).
WriteBucket ==
    /\ pc = "writer"
    /\ \E period \in WriterPeriods, df \in WriterFrames, fault \in WriterFaults :
       \E r \in {_save_and_upload_to_s3(tickers[1], period, df, fault, s3, disk)} :
           /\ s3' = r.s3
           /\ disk' = r.disk
           /\ lastWrite' = WriteRecord(tickers[1], period, df, fault, r)
    /\ UNCHANGED <<clock, today, host, warehouse, runState, history, lost, run,
                   partVars, fixedVars, mono, toolVars>>

\* A call of _save_and_upload_to_s3_flat.
WriteFlat ==
    /\ pc = "writer"
    /\ \E df \in WriterFrames, fault \in WriterFaults :
       \E r \in {_save_and_upload_to_s3_flat(tickers[1], df, fault, s3, disk)} :
           /\ s3' = r.s3
           /\ disk' = r.disk
           /\ lastWrite' = WriteRecord(tickers[1], FlatPeriod, df, fault, r)
    /\ UNCHANGED <<clock, today, host, warehouse, runState, history, lost, run,
                   partVars, fixedVars, mono, toolVars>>

InitWriter ==
    /\ tickers = <<"AAPL">>
    /\ pipeline = "incremental"
    /\ jitter = 0
    /\ mono = 0
    /\ tz = 0
    /\ clock = FirstDay
    /\ today = FirstDay
    /\ END_DATE = EndDateOf(FirstDay)
    /\ pc = "writer"
    /\ ticker_ranges = <<>>
    /\ i = 0
    /\ successful_tickers = 0
    /\ failed_tickers = <<>>
    /\ queryRaised = {}
    /\ fetchLog = <<>>
    /\ writeLog = {}
    /\ warehouse = {}
    /\ s3 = <<>>
    /\ disk = {}
    /\ lost = {}
    /\ run = 1
    /\ NoPartition
    /\ NoFixed
    /\ NoWriter
    /\ NoTools

NextWriter == WriteBucket \/ WriteFlat

SpecWriter == InitWriter /\ [][NextWriter]_vars

(***************************************************************************)
(* The month ranges of any START_DATE and END_DATE                         *)
(***************************************************************************)

\* The (start, end) pairs handed to the generators: every start from
\* 2023-12-20 on with every span up to MaxSpan days, and the pairs the two
\* pipelines are configured with.
RangeInputs ==
    {<<s, s + n>> : s \in RangeFirstDay..(RangeFirstDay + RangeDays - 1), n \in 0..MaxSpan}
    \cup {<<strptime(FIXED_START_DATE), strptime(FIXED_END_DATE)>>,
          <<strptime(VEC_START_DATE), strptime(VEC_END_DATE)>>}

\* The tuples of _generate_date_ranges: those of _generate_monthly_ranges
\* without the month_key.
WithoutMonthKey(date_ranges) ==
    [k \in DOMAIN date_ranges |-> [start_date |-> date_ranges[k].start_date,
                                   end_date   |-> date_ranges[k].end_date]]

\* FixedProductionOHLCVPipeline._generate_monthly_ranges for START_DATE and
\* END_DATE as given.
GenerateMonthlyRanges ==
    /\ pc = "ranges"
    /\ ranges_out' = MonthlyRangesFrom(range_in[1], range_in[2], <<>>)
    /\ pc' = "monthly_ranges"
    /\ UNCHANGED <<clock, today, host, stores, END_DATE, ticker_ranges, i,
                   successful_tickers, failed_tickers, history, lost, run,
                   partVars, fixedVars, mono, lastWrite, range_in, verifyVars>>

\* VectorizedScannerTestPipeline._generate_date_ranges for START_DATE and
\* END_DATE as given.
GenerateDateRanges ==
    /\ pc = "ranges"
    /\ ranges_out' = WithoutMonthKey(MonthlyRangesFrom(range_in[1], range_in[2], <<>>))
    /\ pc' = "date_ranges"
    /\ UNCHANGED <<clock, today, host, stores, END_DATE, ticker_ranges, i,
                   successful_tickers, failed_tickers, history, lost, run,
                   partVars, fixedVars, mono, lastWrite, range_in, verifyVars>>

InitRanges ==
    /\ NoRun("ranges")
    /\ range_in \in RangeInputs
    /\ ranges_out = <<>>
    /\ NoVerify

NextRanges == GenerateMonthlyRanges \/ GenerateDateRanges

SpecRanges == InitRanges /\ [][NextRanges]_vars

(***************************************************************************)
(* run_pipeline_with_verification.py and data_quality_verification.py      *)
(***************************************************************************)

\* The checks of run_verification, in the order they are made.
Checks == <<"s3_contents", "data_format", "data_freshness">>

\* The 'status' a check may return (verify_data_format also 'PARTIAL').
CheckStatuses(check) ==
    IF check = "data_format" THEN {"PASSED", "WARNING", "FAILED", "PARTIAL"}
    ELSE {"PASSED", "WARNING", "FAILED"}

\* self.verification_results after the first n checks.
ResultsAfter(n) ==
    {res \in [{Checks[k] : k \in 1..n} -> {"PASSED", "WARNING", "FAILED", "PARTIAL"}] :
        \A c \in DOMAIN res : res[c] \in CheckStatuses(c)}

\* The counters of generate_summary_report.
passed_checks(res) == Cardinality({c \in DOMAIN res : res[c] = "PASSED"})
warnings(res)      == Cardinality({c \in DOMAIN res : res[c] = "WARNING"})
failed_checks(res) == Cardinality({c \in DOMAIN res : res[c] \notin {"PASSED", "WARNING"}})

\* DataQualityVerifier.generate_summary_report: summary['overall_status']
generate_summary_report(res) ==
    IF failed_checks(res) > 0 THEN "FAILED"
    ELSE IF warnings(res) > 0 THEN "WARNING"
    ELSE "PASSED"

\* main() of data_quality_verification.py: the code it exits with.
VerificationExit(status) ==
    IF status = "PASSED" THEN 0
    ELSE IF status = "WARNING" THEN 1
    ELSE 2

\* Step 3 of the wrapper's main(): final_exit_code from the verifier's return
\* code (verification_success is  returncode == 0).
FinalAssessment(code) ==
    IF code = 0 THEN 0
    ELSE IF code = 1 THEN 1
    ELSE 2

\* The return codes of the pipeline's process: 0, 1 (sys.exit(1) of its
\* main), or -1 of run_command when the process could not be run.
PipelineCodes == {0, 1, -1}

\* Step 1: run_command for incremental_ohlcv_pipeline.py.
WrapperRunPipeline ==
    /\ vpc = "start"
    /\ pipeline_code' \in PipelineCodes
    /\ vpc' = "verify"
    /\ UNCHANGED <<clock, today, host, stores, runState, history, lost, run, partVars,
                   fixedVars, mono, lastWrite, rangeVars, verification_results,
                   overall_status, verification_code, final_exit_code>>

\* Step 2, the verifier running to its end: the three checks, the summary,
\* and the exit code of its main().
VerifierCompletes ==
    /\ vpc = "verify"
    /\ \E res \in ResultsAfter(Len(Checks)) :
          /\ verification_results' = res
          /\ overall_status' = generate_summary_report(res)
          /\ verification_code' = VerificationExit(generate_summary_report(res))
    /\ vpc' = "assess"
    /\ UNCHANGED <<clock, today, host, stores, runState, history, lost, run, partVars,
                   fixedVars, mono, lastWrite, rangeVars, pipeline_code, final_exit_code>>

\* Step 2, an exception inside the try of run_verification: its handler
\* returns overall_status 'FAILED'.
VerifierRaisesInside ==
    /\ vpc = "verify"
    /\ \E n \in 0..Len(Checks) : verification_results' \in ResultsAfter(n)
    /\ overall_status' = "FAILED"
    /\ verification_code' = VerificationExit("FAILED")
    /\ vpc' = "assess"
    /\ UNCHANGED <<clock, today, host, stores, runState, history, lost, run, partVars,
                   fixedVars, mono, lastWrite, rangeVars, pipeline_code, final_exit_code>>

\* Step 2, the verifier's process ending without a result: an exception at
\* import or while logging is set up (the interpreter exits with 1), or one
\* caught by the  except Exception  of its main() (sys.exit(1)).
VerifierCrashes ==
    /\ vpc = "verify"
    /\ verification_results' = <<>>
    /\ overall_status' = ""
    /\ verification_code' = 1
    /\ vpc' = "assess"
    /\ UNCHANGED <<clock, today, host, stores, runState, history, lost, run, partVars,
                   fixedVars, mono, lastWrite, rangeVars, pipeline_code, final_exit_code>>

\* Step 2, the verifier interrupted (sys.exit(130)) or its process not
\* started at all (run_command returns -1).
VerifierStopped ==
    /\ vpc = "verify"
    /\ verification_results' = <<>>
    /\ overall_status' = ""
    /\ verification_code' \in {130, -1}
    /\ vpc' = "assess"
    /\ UNCHANGED <<clock, today, host, stores, runState, history, lost, run, partVars,
                   fixedVars, mono, lastWrite, rangeVars, pipeline_code, final_exit_code>>

\* Step 3: the final assessment and sys.exit(final_exit_code).
WrapperAssess ==
    /\ vpc = "assess"
    /\ final_exit_code' = FinalAssessment(verification_code)
    /\ vpc' = "exited"
    /\ UNCHANGED <<clock, today, host, stores, runState, history, lost, run, partVars,
                   fixedVars, mono, lastWrite, rangeVars, pipeline_code,
                   verification_results, overall_status, verification_code>>

InitVerify ==
    /\ NoRun("wrapper")
    /\ NoRanges
    /\ vpc = "start"
    /\ pipeline_code = 0
    /\ verification_results = <<>>
    /\ overall_status = ""
    /\ verification_code = 0
    /\ final_exit_code = 0

NextVerify ==
    \/ WrapperRunPipeline
    \/ VerifierCompletes
    \/ VerifierRaisesInside
    \/ VerifierCrashes
    \/ VerifierStopped
    \/ WrapperAssess

SpecVerify == InitVerify /\ [][NextVerify]_vars

(***************************************************************************)
(* Properties of the planner (checked under SpecPlan)                      *)
(***************************************************************************)

\* run() holds the plan get_ticker_date_ranges returned.
Planned == pc \in {"s3init", "loop", "done"}

\* The dates the warehouse holds for a ticker.
StoredDates(ticker) == {w.OHLC_DATE : w \in {x \in warehouse : x.TICKER = ticker}}

\* C1: every planned window of a ticker whose high-water mark in the warehouse
\* is a date d starts exactly at d + 1 day and ends at the run's cutoff date.
C1_WindowStartsAfterHighWaterMark ==
    Planned =>
        \A k \in DOMAIN ticker_ranges :
            StoredDates(ticker_ranges[k].ticker) # {} =>
                /\ ticker_ranges[k].start_date =
                       strftime(Max(StoredDates(ticker_ranges[k].ticker)) + 1)
                /\ ticker_ranges[k].end_date = END_DATE

\* C1: a plan in which a ticker with a high-water mark, whose query raised, is
\* given a window that starts 730 days back instead of the day after the mark.
C1_MarkedTickerPlannedFromFullHistory ==
    /\ Planned
    /\ \E k \in DOMAIN ticker_ranges :
          /\ StoredDates(ticker_ranges[k].ticker) # {}
          /\ ticker_ranges[k].ticker \in queryRaised
          /\ StrGT(strftime(Max(StoredDates(ticker_ranges[k].ticker)) + 1),
                   ticker_ranges[k].start_date)

Failed == Range(failed_tickers)

\* The calls of _save_and_upload_to_s3 made for a ticker in this run.
WritesOf(ticker) == {w \in writeLog : w.ticker = ticker}

\* C6: once the loop has begun, a run ends only after every planned ticker has
\* been processed, in plan order, whatever the fetches did; and every ticker
\* whose fetch delivered data had each of its buckets handed to the writer.
C6_FetchFailureNeverAborts ==
    /\ Len(fetchLog) <= Len(ticker_ranges)
    /\ \A k \in DOMAIN fetchLog :
          /\ fetchLog[k].ticker = ticker_ranges[k].ticker
          /\ fetchLog[k].upstream = "Ok" =>
                {w.month : w \in WritesOf(fetchLog[k].ticker)} = fetchLog[k].months
                /\ fetchLog[k].months # {}
    /\ (pc \in {"done", "raised"} /\ fetchLog # <<>>) =>
          Len(fetchLog) = Len(ticker_ranges)

\* C6: a finished run in which the fetch of the first planned ticker raised
\* and the second planned ticker was fetched, partitioned and uploaded.
C6_FailedFetchThenUploadedTicker ==
    /\ pc = "done"
    /\ Len(fetchLog) = 2
    /\ fetchLog[1].upstream = "Error"
    /\ fetchLog[2].upstream = "Ok"
    /\ \E w \in WritesOf(fetchLog[2].ticker) :
          w.ok /\ S3Key(w.ticker, w.month) \in DOMAIN s3
    /\ successful_tickers = 1

\* C7: a ticker for which the upstream reported no data has no artifact
\* written and is not among the failed tickers of the run.
C7_NoDataIsNotAFailure ==
    \A k \in DOMAIN fetchLog :
        fetchLog[k].upstream = "NoData" =>
            /\ WritesOf(fetchLog[k].ticker) = {}
            /\ fetchLog[k].ticker \notin Failed

\* C7: a ticker for which the upstream reported no data, with no artifact
\* written, is in failed_tickers.
C7_NoDataTickerRecordedFailed ==
    \E k \in DOMAIN fetchLog :
        /\ fetchLog[k].upstream = "NoData"
        /\ WritesOf(fetchLog[k].ticker) = {}
        /\ fetchLog[k].ticker \in Failed

\* C8: a fetch that failed in transport and a fetch that was answered with no
\* data never return the same value and never end in the same recorded
\* outcome (one in failed_tickers, the other not).
C8_FailureDistinctFromNoData ==
    \A j \in DOMAIN fetchLog, k \in DOMAIN fetchLog :
        (fetchLog[j].upstream = "Error" /\ fetchLog[k].upstream = "NoData") =>
            /\ fetchLog[j].returned # fetchLog[k].returned
            /\ (fetchLog[j].ticker \in Failed) # (fetchLog[k].ticker \in Failed)

\* C8: a fetch that raised and a fetch answered with no data both returned
\* None and both tickers are in failed_tickers.
C8_BothReturnNoneBothFailed ==
    \E j \in DOMAIN fetchLog, k \in DOMAIN fetchLog :
        /\ fetchLog[j].upstream = "Error"
        /\ fetchLog[k].upstream = "NoData"
        /\ fetchLog[j].returned = None
        /\ fetchLog[k].returned = None
        /\ fetchLog[j].ticker \in Failed
        /\ fetchLog[k].ticker \in Failed

\* C9: a processed ticker is counted as successful only if every bucket made
\* from its data was handed to the writer and every such call uploaded the
\* file and returned True; a ticker one of whose buckets failed is in
\* failed_tickers; every processed ticker is counted once, one way or the other.
C9_DoneOnlyIfEveryBucketWritten ==
    /\ successful_tickers + Len(failed_tickers) = Len(fetchLog)
    /\ \A k \in DOMAIN fetchLog :
          /\ fetchLog[k].ticker \notin Failed =>
                /\ fetchLog[k].months # {}
                /\ {w.month : w \in WritesOf(fetchLog[k].ticker)} = fetchLog[k].months
                /\ \A w \in WritesOf(fetchLog[k].ticker) :
                      /\ w.ok
                      /\ w.uploaded
                      /\ S3Key(w.ticker, w.month) \in DOMAIN s3
          /\ (\E w \in WritesOf(fetchLog[k].ticker) : ~w.ok) =>
                fetchLog[k].ticker \in Failed

\* C9: a ticker of the comprehensive pipeline with two yearly buckets, one
\* uploaded and one whose upload failed, recorded as failed.
C9_OneBucketFailedBesideUploadedOne ==
    /\ pipeline = "comprehensive"
    /\ \E k \in DOMAIN fetchLog :
          /\ fetchLog[k].ticker \in Failed
          /\ \E v \in WritesOf(fetchLog[k].ticker), w \in WritesOf(fetchLog[k].ticker) :
                /\ v.month # w.month
                /\ v.ok /\ v.uploaded
                /\ ~w.ok /\ ~w.uploaded

\* C10: in a run in which the high-water mark query of some ticker raised, no
\* fetch is ever made.
C10_QueryErrorAbortsBeforeFetch ==
    queryRaised # {} => fetchLog = <<>>

\* C10: a ticker with data in the warehouse whose query raised has been
\* fetched from 730 days back, as a ticker with no data is.
C10_QueryErrorFetchedAsFullHistory ==
    \E k \in DOMAIN fetchLog :
        /\ fetchLog[k].ticker \in queryRaised
        /\ StoredDates(fetchLog[k].ticker) # {}
        /\ \E now \in today..clock :
              fetchLog[k].start_date = FullHistoryStart(now)

(***************************************************************************)
(* Properties of successive runs (checked under SpecSchedule)              *)
(***************************************************************************)

\* C3: in the run after one in which a bucket of a ticker failed while
\* another bucket of the ticker was uploaded, the planned window of the
\* ticker covers every date of the failed bucket.
C3_NextWindowCoversFailedBucket ==
    (run > 1 /\ Planned) =>
        \A l \in lost : \A d \in l.dates :
            \E k \in DOMAIN ticker_ranges :
                /\ ticker_ranges[k].ticker = l.ticker
                /\ ~StrGT(ticker_ranges[k].start_date, strftime(d))
                /\ ~StrGT(strftime(d), ticker_ranges[k].end_date)

\* C3: a second run whose plan was made with the February bucket of the first
\* run lost and its date absent from the warehouse and from the bucket store.
C3_GapBelowHighWaterMark ==
    /\ run > 1
    /\ Planned
    /\ \E l \in lost : \E d \in l.dates :
          /\ d \notin StoredDates(l.ticker)
          /\ StoredDates(l.ticker) # {}
          /\ d < Max(StoredDates(l.ticker))
          /\ \A key \in DOMAIN s3 : \A n \in DOMAIN s3[key] : s3[key][n].OHLC_DATE # d

(***************************************************************************)
(* Properties of the partitioners (checked under SpecPartition, SpecFixed) *)
(***************************************************************************)

\* Day d lies in the calendar month <<year, month>>: from its first day up
\* to the day before the first day of the next month.
InMonth(d, key) ==
    /\ strptime(<<key[1], key[2], 1>>) <= d
    /\ d < (IF key[2] = 12 THEN strptime(<<key[1] + 1, 1, 1>>)
            ELSE strptime(<<key[1], key[2] + 1, 1>>))

\* Day d lies in the calendar year <<year>>.
InYear(d, key) ==
    /\ strptime(<<key[1], 1, 1>>) <= d
    /\ d < strptime(<<key[1] + 1, 1, 1>>)

\* The rows the partitioners are handed, as they stand in the DataFrame.
InputRows == ToDataFrame(tickers[1], body_in.results, tz)

\* The buckets are a partition of the rows by month: a bucket holds exactly
\* the rows whose date lies in its month (as many as the input holds, in
\* input order), no bucket is empty, and every row lies in the month of
\* exactly one bucket.
IsPartitionByMonth(buckets, df) ==
    /\ \A key \in DOMAIN buckets :
          /\ buckets[key] = SelectSeq(df, LAMBDA row : InMonth(row.OHLC_DATE, key))
          /\ buckets[key] # <<>>
    /\ \A k \in DOMAIN df :
          Cardinality({key \in DOMAIN buckets : InMonth(df[k].OHLC_DATE, key)}) = 1

\* The same by year.
IsPartitionByYear(buckets, df) ==
    /\ \A key \in DOMAIN buckets :
          /\ buckets[key] = SelectSeq(df, LAMBDA row : InYear(row.OHLC_DATE, key))
          /\ buckets[key] # <<>>
    /\ \A k \in DOMAIN df :
          Cardinality({key \in DOMAIN buckets : InYear(df[k].OHLC_DATE, key)}) = 1

\* C4: the monthly and the yearly partitioner file a row under a bucket if and
\* only if its date lies in the bucket's calendar period; every row is in
\* exactly one bucket, none is duplicated or lost, whatever the row order.
C4_PartitionByCalendarPeriod ==
    /\ by_month # <<>> => IsPartitionByMonth(by_month[1], InputRows)
    /\ by_year # <<>>  => IsPartitionByYear(by_year[1], InputRows)

\* C4: three rows out of date order, two of them of one month and the third
\* of the same month a year earlier, partitioned both ways.
C4_UnorderedRowsOfTwoYearsPartitioned ==
    /\ by_month # <<>>
    /\ by_year # <<>>
    /\ Len(InputRows) = 3
    /\ InputRows[1].OHLC_DATE > InputRows[2].OHLC_DATE
    /\ InputRows[3].OHLC_DATE > InputRows[2].OHLC_DATE
    /\ DOMAIN by_month[1] = {<<2023, 1>>, <<2024, 1>>}
    /\ Len(by_month[1][<<2024, 1>>]) = 2
    /\ DOMAIN by_year[1] = {<<2023>>, <<2024>>}

\* C5: an iteration of the month loop changes no artifact but that of its
\* ticker and expected month, and whatever artifacts the bucket holds
\* afterwards hold rows of their own ticker and month only: a returned row
\* dated outside the expected month is in no artifact the iteration wrote.
C5_OutOfMonthRowsDropped ==
    [][fixedLog' # fixedLog =>
          /\ \A key \in DOMAIN s3' :
                (key \notin DOMAIN s3 \/ s3'[key] # s3[key]) =>
                    key = S3Key(fixedLog'[1].ticker, fixedLog'[1].month_key)
          /\ \A key \in DOMAIN s3' : \A n \in DOMAIN s3'[key] :
                /\ s3'[key][n].TICKER = key[1]
                /\ InMonth(s3'[key][n].OHLC_DATE, <<key[2], key[3]>>)
          /\ \A d \in fixedLog'[1].kept : InMonth(d, fixedLog'[1].month_key)
          /\ \A d \in fixedLog'[1].returned :
                InMonth(d, fixedLog'[1].month_key) <=> d \in fixedLog'[1].kept]_vars

\* C5: the February iteration of a ticker was answered with a bar of
\* 2024-02-29 and a bar of 2024-03-01; the February artifact holds the first
\* only and the ticker has no other artifact.
C5_MarchRowDroppedFromFebruaryFetch ==
    /\ pipeline = "fixed"
    /\ fixedLog # <<>>
    /\ fixedLog[1].month_key = <<2024, 2>>
    /\ fixedLog[1].returned = {19782, 19783}
    /\ fixedLog[1].kept = {19782}
    /\ S3Key(fixedLog[1].ticker, <<2024, 2>>) \in DOMAIN s3
    /\ DatesOf(s3[S3Key(fixedLog[1].ticker, <<2024, 2>>)]) = {19782}
    /\ \A key \in DOMAIN s3 :
          key[1] = fixedLog[1].ticker => key = S3Key(fixedLog[1].ticker, <<2024, 2>>)

(***************************************************************************)
(* Properties of the plan's windows (checked under Spec and SpecPlan)      *)
(***************************************************************************)

\* The tickers that are already current: the day after their high-water mark
\* in the warehouse is later than the cutoff date.
AlreadyCurrent ==
    {t \in Range(tickers) :
        /\ StoredDates(t) # {}
        /\ strptime(END_DATE) < Max(StoredDates(t)) + 1}

\* C11: a ticker whose start date (high-water mark + 1 day) is later than the
\* cutoff date is left out of the plan: no window is planned for it, no fetch
\* is issued for it and no artifact is written for it in that run.
C11_CurrentTickerOmitted ==
    Planned =>
        \A t \in AlreadyCurrent :
            /\ \A k \in DOMAIN ticker_ranges : ticker_ranges[k].ticker # t
            /\ \A k \in DOMAIN fetchLog : fetchLog[k].ticker # t
            /\ \A w \in writeLog : w.ticker # t

\* C11: a run in which a ticker that is already current, whose query raised,
\* was fetched for a window of 730 days and had an artifact uploaded.
C11_CurrentTickerFetchedAndWritten ==
    \E t \in AlreadyCurrent :
        /\ t \in queryRaised
        /\ \E k \in DOMAIN fetchLog :
              /\ fetchLog[k].ticker = t
              /\ fetchLog[k].start_date = strftime(today - LOOKBACK_DAYS)
        /\ \E w \in writeLog : w.ticker = t /\ w.uploaded

\* C12: every window of the plan get_ticker_date_ranges returned has
\* start_date <= end_date, whether the ticker has a high-water mark or not,
\* on every day of the week the cutoff date is computed on.
C12_WindowStartNotAfterEnd ==
    Planned =>
        \A k \in DOMAIN ticker_ranges :
            strptime(ticker_ranges[k].start_date) <= strptime(ticker_ranges[k].end_date)

\* C12: a plan that holds a window of a single day (the high-water mark is the
\* day before the cutoff date) beside a window of a ticker without data.
C12_OneDayWindowPlanned ==
    /\ Planned
    /\ \E k \in DOMAIN ticker_ranges :
          /\ StoredDates(ticker_ranges[k].ticker) # {}
          /\ ticker_ranges[k].ticker \notin queryRaised
          /\ ticker_ranges[k].start_date = ticker_ranges[k].end_date
    /\ \E k \in DOMAIN ticker_ranges : StoredDates(ticker_ranges[k].ticker) = {}

(***************************************************************************)
(* Properties of the writers (checked under SpecWriter)                    *)
(***************************************************************************)

\* The last call of a writer, and the one before it.
LastCall == lastWrite[Len(lastWrite)]
PrevCall == lastWrite[1]

\* The key a call wrote under, from its ticker and period alone.
KeyOf(call) == <<call.ticker>> \o call.period

\* C13: writing a bucket and then writing the same bucket again leaves the
\* staging store as it was after the first write: the key is a function of
\* (ticker, period) alone, and the second write puts the same content there.
\* Every successful write leaves its DataFrame at the key of its ticker and
\* period and no other object changed.
C13_SecondWriteChangesNothing ==
    [][/\ (/\ lastWrite # <<>>
           /\ lastWrite' # <<>>
           /\ LastCall.ok
           /\ LastCall' = LastCall)
          => s3' = s3
       /\ (lastWrite' # <<>> /\ LastCall'.ok)
          => /\ DOMAIN s3' = DOMAIN s3 \cup {KeyOf(LastCall')}
             /\ s3'[KeyOf(LastCall')] = LastCall'.df
             /\ \A key \in DOMAIN s3 : key # KeyOf(LastCall') => s3'[key] = s3[key]]_vars

\* C13: the same bucket was written twice with success, other objects being
\* in the bucket, and the object at its key is the DataFrame written.
C13_SameBucketWrittenTwice ==
    /\ Len(lastWrite) = 2
    /\ PrevCall = LastCall
    /\ LastCall.ok
    /\ s3[KeyOf(LastCall)] = LastCall.df
    /\ Cardinality(DOMAIN s3) = 3

\* C14: a write that fails in serialization or in the transfer leaves the
\* staging store unchanged: what was at the key before is still there, as it
\* was, and returns False; at no time does the store hold an object that is
\* not a DataFrame handed whole to a writer.
C14_FailedWriteLeavesStore ==
    /\ [](\A key \in DOMAIN s3 : s3[key] \in WriterFrames)
    /\ [][(lastWrite' # <<>> /\ LastCall'.fault \in {"serialize", "upload"})
             => (s3' = s3 /\ ~LastCall'.ok)]_vars

\* C14: a write of a bucket succeeded, then a write of other content under the
\* same key failed in the transfer, and the first content is still at the key.
C14_FailedOverwriteKeptArtifact ==
    /\ Len(lastWrite) = 2
    /\ PrevCall.ok
    /\ KeyOf(LastCall) = KeyOf(PrevCall)
    /\ LastCall.fault = "upload"
    /\ LastCall.df # PrevCall.df
    /\ s3[KeyOf(LastCall)] = PrevCall.df

\* C15: once a writer has returned, with success or after a failure at any
\* step, its scratch file is not on the local disk.
C15_NoScratchFileAfterReturn ==
    lastWrite # <<>> => KeyOf(LastCall) \notin disk

\* C15: a writer returned False after os.remove raised, the object uploaded
\* and the scratch file still on the local disk.
C15_ScratchFileLeftAfterFailedRemove ==
    /\ lastWrite # <<>>
    /\ LastCall.fault = "remove"
    /\ ~LastCall.ok
    /\ KeyOf(LastCall) \in DOMAIN s3
    /\ KeyOf(LastCall) \in disk

(***************************************************************************)
(* Properties of the artifacts (checked under Spec, SpecBucket, SpecWindow) *)
(***************************************************************************)

\* The (TICKER, OHLC_DATE) pairs of the rows of an artifact.
Covered(artifact) ==
    {<<artifact[n].TICKER, artifact[n].OHLC_DATE>> : n \in DOMAIN artifact}

\* C16: at most one row per (ticker, trade date): no artifact in the bucket
\* holds two rows with the same ticker and OHLC_DATE, also when the upstream
\* delivered two bars that map to the same date.
C16_OneRowPerTickerAndDate ==
    \A key \in DOMAIN s3 :
        \A a, b \in DOMAIN s3[key] :
            (s3[key][a].TICKER = s3[key][b].TICKER
                /\ s3[key][a].OHLC_DATE = s3[key][b].OHLC_DATE) => a = b

\* C16: the upstream delivered two bars of 2024-03-01 in one response and the
\* artifact of 2024-03 holds two rows of that date.
C16_TwoRowsOfOneDateUploaded ==
    /\ \E k \in DOMAIN fetchLog :
          /\ fetchLog[k].ticker = "AAPL"
          /\ fetchLog[k].returned # None
          /\ Len(fetchLog[k].returned[1].results) = 2
    /\ <<"AAPL", 2024, 3>> \in DOMAIN s3
    /\ Len(s3[<<"AAPL", 2024, 3>>]) = 2
    /\ s3[<<"AAPL", 2024, 3>>][1].OHLC_DATE = s3[<<"AAPL", 2024, 3>>][2].OHLC_DATE
    /\ s3[<<"AAPL", 2024, 3>>][1].OHLC_TIMESTAMP # s3[<<"AAPL", 2024, 3>>][2].OHLC_TIMESTAMP

\* C17: the artifacts in the bucket are pairwise disjoint: no (ticker, trade
\* date) is covered by the artifacts of two different keys, after any
\* sequence of runs of the pipelines that write to the bucket.
C17_ArtifactsPairwiseDisjoint ==
    \A k1, k2 \in DOMAIN s3 :
        k1 # k2 => Covered(s3[k1]) \cap Covered(s3[k2]) = {}

\* C17: after a run of the incremental and a run of the comprehensive
\* pipeline the monthly and the yearly artifact both hold AAPL's 2024-03-01.
C17_MonthlyAndYearlyArtifactOverlap ==
    /\ run = 2
    /\ <<"AAPL", 2024, 3>> \in DOMAIN s3
    /\ <<"AAPL", 2024>> \in DOMAIN s3
    /\ <<"AAPL", 19783>> \in Covered(s3[<<"AAPL", 2024, 3>>]) \cap Covered(s3[<<"AAPL", 2024>>])

\* C18: every row the incremental pipeline writes for a window
\* [start_date, end_date] has its trade date inside the window, also when the
\* upstream delivers bars outside the range requested.
C18_WrittenRowsInsideWindow ==
    \A w \in writeLog :
        w.uploaded =>
            \A k \in DOMAIN fetchLog :
                fetchLog[k].ticker = w.ticker =>
                    \A d \in w.dates :
                        /\ strptime(fetchLog[k].start_date) <= d
                        /\ d <= strptime(fetchLog[k].end_date)

\* C18: on a host in UTC, the window requested starting on 2024-03-01, the
\* upstream delivered the bar of 2024-02-29 and its row was uploaded.
C18_RowBeforeWindowUploaded ==
    /\ tz = 0
    /\ \E k \in DOMAIN fetchLog :
          /\ fetchLog[k].start_date = <<2024, 3, 1>>
          /\ \E w \in writeLog :
                /\ w.ticker = fetchLog[k].ticker
                /\ w.uploaded
                /\ 19782 \in w.dates
    /\ <<"AAPL", 2024, 2>> \in DOMAIN s3

\* C19: no artifact with zero rows is ever written or uploaded: every object
\* of the bucket and every DataFrame handed to a writer has a row, and a
\* month of which the filter keeps no row leaves the bucket and the disk as
\* they are.
C19_NoEmptyArtifact ==
    /\ [](/\ \A key \in DOMAIN s3 : Len(s3[key]) > 0
          /\ \A w \in writeLog : w.dates # {})
    /\ [][(fixedLog' # <<>> /\ fixedLog'[1].kept = {})
             => (s3' = s3 /\ disk' = disk)]_vars

\* C19: the request for a month returned rows, the filter kept none of them,
\* and there is no object for that month in the bucket.
C19_EmptiedMonthNotWritten ==
    /\ fixedLog # <<>>
    /\ fixedLog[1].returned # {}
    /\ fixedLog[1].kept = {}
    /\ <<fixedLog[1].ticker>> \o fixedLog[1].month_key \notin DOMAIN s3

(***************************************************************************)
(* The rate limit (checked under SpecRate)                                 *)
(***************************************************************************)

\* C20: in a run the RATE_LIMIT_DELAY wait is taken before the fetch of every
\* planned ticker but the first; the first fetch is not delayed, and two
\* consecutive fetches are at least RATE_LIMIT_DELAY apart, also when the
\* ticker before failed.
C20_WaitBeforeEveryFetchButFirst ==
    \A k \in DOMAIN fetchLog :
        IF k = 1
        THEN fetchLog[k].waited = 0 /\ fetchLog[k].at = 0
        ELSE /\ fetchLog[k].waited >= RATE_LIMIT_DELAY
             /\ fetchLog[k].at - fetchLog[k - 1].at >= RATE_LIMIT_DELAY

\* C20: the first ticker of an incremental run failed on a raising fetch and
\* the second one was fetched after a wait, later than RATE_LIMIT_DELAY after
\* the first fetch.
C20_SecondFetchAfterFailedFirst ==
    /\ pipeline = "incremental"
    /\ Len(fetchLog) = 2
    /\ fetchLog[1].upstream = "Error"
    /\ fetchLog[1].ticker \in Range(failed_tickers)
    /\ fetchLog[2].waited >= RATE_LIMIT_DELAY
    /\ fetchLog[2].at - fetchLog[1].at > RATE_LIMIT_DELAY

(***************************************************************************)
(* Properties of the run as a whole                                        *)
(***************************************************************************)

\* C21: the cutoff date is fixed for the whole run: self.END_DATE, every
\* window of the plan and every fetch issued use the end date computed at
\* construction, also when midnight passes while planning or fetching.
C21_CutoffFixedForTheRun ==
    /\ END_DATE = EndDateOf(today)
    /\ \A k \in DOMAIN ticker_ranges : ticker_ranges[k].end_date = EndDateOf(today)
    /\ \A k \in DOMAIN fetchLog : fetchLog[k].end_date = EndDateOf(today)

\* C21: midnight passed between the two fetches of a run (the end date of a
\* pipeline constructed on the new day would differ), and both fetches were
\* issued with the same end date.
C21_BothFetchesSameCutoffAcrossMidnight ==
    /\ Len(fetchLog) = 2
    /\ clock = today + 1
    /\ EndDateOf(clock) # EndDateOf(today)
    /\ fetchLog[1].end_date = fetchLog[2].end_date
    /\ fetchLog[2].end_date = EndDateOf(today)

\* C22: within one run each planned ticker is fetched at most once: the
\* fetches are those of the plan, in its order, no ticker twice, and a ticker
\* whose fetch or write failed is in failed_tickers once and is not fetched
\* again.
C22_FetchedAtMostOnce ==
    /\ Len(fetchLog) <= Len(ticker_ranges)
    /\ \A j, k \in DOMAIN fetchLog : fetchLog[j].ticker = fetchLog[k].ticker => j = k
    /\ \A j, k \in DOMAIN failed_tickers : failed_tickers[j] = failed_tickers[k] => j = k
    /\ \A t \in Failed : \E k \in DOMAIN fetchLog : fetchLog[k].ticker = t

\* C22: a run ended in which the fetch of the first ticker raised and a write
\* of the second failed; both are reported and each was fetched once.
C22_FailedTickersReportedNotRetried ==
    /\ pc = "done"
    /\ Len(fetchLog) = 2
    /\ fetchLog[1].upstream = "Error"
    /\ fetchLog[2].upstream = "Ok"
    /\ \E w \in WritesOf(fetchLog[2].ticker) : ~w.ok
    /\ failed_tickers = <<fetchLog[1].ticker, fetchLog[2].ticker>>

\* C23: while the loop runs the tickers counted as successful and those listed
\* as failed add up to the tickers processed, at the summary to the tickers
\* planned; the successful count is the number of fetched tickers that are not
\* listed as failed, so no ticker is in both, whatever the outcomes were.
C23_SucceededPlusFailedIsPlanned ==
    /\ pc = "loop" => successful_tickers + Len(failed_tickers) = i
    /\ pc = "done" => successful_tickers + Len(failed_tickers) = Len(ticker_ranges)
    /\ successful_tickers =
           Cardinality({k \in DOMAIN fetchLog : fetchLog[k].ticker \notin Failed})
    /\ Cardinality(Failed) = Len(failed_tickers)

\* C23: a run ended with one ticker successful and the other failed.
C23_RunEndedWithOneOfEach ==
    /\ pc = "done"
    /\ Len(ticker_ranges) = 2
    /\ successful_tickers = 1
    /\ Len(failed_tickers) = 1
    /\ fetchLog[1].ticker \in Failed
    /\ fetchLog[2].ticker \notin Failed

\* The state of the planned ticker at position k, in the words of the
\* orchestrator's state machine: PENDING until process_ticker was called for
\* it, then named after what the fetch and the writes did.
EntityState(k) ==
    IF k > Len(fetchLog) THEN "PENDING"
    ELSE IF fetchLog[k].upstream = "NoData" THEN "NO_DATA"
    ELSE IF fetchLog[k].upstream = "Error" THEN "FETCH_FAILED"
    ELSE IF \A w \in WritesOf(fetchLog[k].ticker) : w.ok THEN "DONE"
    ELSE "PARTIAL_FAILURE"

Ended == pc \in {"done", "raised"}

\* _initialize_s3_client raised: the run ended after planning, before the loop.
S3InitRaised == pc = "raised" /\ ticker_ranges # <<>> /\ i = 0

\* C24 (original statement): when a run has ended no planned ticker is PENDING.
C24_NoTickerLeftPending ==
    Ended => \A k \in DOMAIN ticker_ranges : EntityState(k) # "PENDING"

\* C24 (amended): a run whose calls all return ends; unless it ended because
\* the S3 client could not be initialised, every planned ticker then has one
\* terminal outcome: NO_DATA or FETCH_FAILED without any write, DONE or
\* PARTIAL_FAILURE with a write for every bucket; a ticker leaves PENDING only
\* when it is next in the plan, and its outcome never changes afterwards.
C24_RunEndsWithEveryTickerSettled ==
    /\ <>Ended
    /\ [](Ended /\ ~S3InitRaised =>
            \A k \in DOMAIN ticker_ranges :
                /\ EntityState(k) # "PENDING"
                /\ EntityState(k) \in {"NO_DATA", "FETCH_FAILED"} =>
                       WritesOf(fetchLog[k].ticker) = {}
                /\ EntityState(k) \in {"DONE", "PARTIAL_FAILURE"} =>
                       /\ fetchLog[k].months # {}
                       /\ {w.month : w \in WritesOf(fetchLog[k].ticker)} = fetchLog[k].months)
    /\ [][\A k \in DOMAIN ticker_ranges :
            /\ EntityState(k) # "PENDING" => EntityState(k)' = EntityState(k)
            /\ (EntityState(k) = "PENDING" /\ EntityState(k)' # "PENDING") =>
                   /\ pc = "loop"
                   /\ k = i + 1
                   /\ i' = k]_vars

\* C24: a run ended with the first ticker without data and the second one
\* written in full.
C24_RunEndedWithNoDataAndDone ==
    /\ pc = "done"
    /\ Len(ticker_ranges) = 2
    /\ EntityState(1) = "NO_DATA"
    /\ EntityState(2) = "DONE"

\* C25: an iteration whose fetch ends without data or with a failure leaves
\* the bucket and the local disk as they were, calls the writer for nothing,
\* and the loop goes on to the next ticker.
C25_FetchWithoutDataChangesNothing ==
    [][(/\ Len(fetchLog') = Len(fetchLog) + 1
        /\ fetchLog'[Len(fetchLog')].upstream \in {"NoData", "Error"})
       => /\ s3' = s3
          /\ disk' = disk
          /\ writeLog' = writeLog
          /\ i' = i + 1
          /\ pc' = "loop"]_vars

\* C25: in a second run the fetch of a ticker ended without data or failed,
\* and the artifact an earlier run wrote for that ticker is in the bucket.
C25_EarlierArtifactKeptAfterFetchWithoutData ==
    /\ run = 2
    /\ Len(fetchLog) = 1
    /\ fetchLog[1].upstream \in {"NoData", "Error"}
    /\ writeLog = {}
    /\ \E key \in DOMAIN s3 : \E row \in Range(s3[key]) : row.TICKER = fetchLog[1].ticker

\* C26: the end date computed at construction is never a Saturday or a Sunday,
\* on whichever day of the week the pipeline is constructed.
C26_CutoffNeverOnWeekend == weekday(strptime(END_DATE)) \notin {5, 6}

\* C26: a pipeline constructed on a Monday whose end date is the Sunday
\* before, the end of the window planned for a ticker.
C26_MondayRunEndsOnSunday ==
    /\ weekday(today) = 0
    /\ strptime(END_DATE) = today - 1
    /\ weekday(strptime(END_DATE)) = 6
    /\ \E k \in DOMAIN ticker_ranges : ticker_ranges[k].end_date = END_DATE

\* C27: the writer returns False only for a file it did not upload, and a
\* ticker whose fetch delivered data is in failed_tickers only if one of its
\* buckets was not uploaded.
C27_FalseOnlyWithoutUpload ==
    /\ \A w \in writeLog : ~w.ok => ~w.uploaded
    /\ \A k \in DOMAIN fetchLog :
          (fetchLog[k].upstream = "Ok" /\ fetchLog[k].ticker \in Failed) =>
              \E w \in WritesOf(fetchLog[k].ticker) : ~w.uploaded

\* C27: a ticker in failed_tickers every bucket of which was uploaded and is
\* in the bucket; only os.remove raised, after the upload.
C27_FailedTickerWithEveryBucketStored ==
    \E k \in DOMAIN fetchLog :
        /\ fetchLog[k].upstream = "Ok"
        /\ fetchLog[k].ticker \in Failed
        /\ \A w \in WritesOf(fetchLog[k].ticker) : w.uploaded
        /\ \A m \in fetchLog[k].months : S3Key(fetchLog[k].ticker, m) \in DOMAIN s3

(***************************************************************************)
(* Properties of the range generators (checked under SpecRanges)           *)
(***************************************************************************)

RangeStart(k) == strptime(ranges_out[k].start_date)

RangeEnd(k) == strptime(ranges_out[k].end_date)

\* The year and month of a day number.
MonthOfDay(n) == <<strftime(n)[1], strftime(n)[2]>>

\* C28: the ranges returned for START_DATE <= END_DATE begin at START_DATE,
\* end at END_DATE, are non-empty, each begins the day after the one before
\* ended (so they ascend and are disjoint), every day of the interval lies in
\* exactly one of them, each lies in one calendar month, the one its month_key
\* names, and the months of the ranges are, once each, the months of the
\* interval.
C28_RangesPartitionTheIntervalByMonth ==
    pc \in {"monthly_ranges", "date_ranges"} =>
        /\ ranges_out # <<>>
        /\ RangeStart(1) = range_in[1]
        /\ RangeEnd(Len(ranges_out)) = range_in[2]
        /\ \A k \in DOMAIN ranges_out :
              /\ RangeStart(k) <= RangeEnd(k)
              /\ MonthOfDay(RangeStart(k)) = MonthOfDay(RangeEnd(k))
              /\ pc = "monthly_ranges" =>
                    ranges_out[k].month_key = MonthOfDay(RangeStart(k))
              /\ k > 1 => RangeStart(k) = RangeEnd(k - 1) + 1
        /\ \A d \in range_in[1]..range_in[2] :
              Cardinality({k \in DOMAIN ranges_out :
                              RangeStart(k) <= d /\ d <= RangeEnd(k)}) = 1
        /\ \A j, k \in DOMAIN ranges_out :
              MonthOfDay(RangeStart(j)) = MonthOfDay(RangeStart(k)) => j = k
        /\ {MonthOfDay(RangeStart(k)) : k \in DOMAIN ranges_out} =
               {MonthOfDay(d) : d \in range_in[1]..range_in[2]}

\* C28: the monthly ranges of 2023-12-20 .. 2024-02-15: the rest of December,
\* all of January, and February up to the end date.
C28_ThreeRangesAcrossTheYearEnd ==
    /\ pc = "monthly_ranges"
    /\ range_in = <<RangeFirstDay, RangeFirstDay + 57>>
    /\ Len(ranges_out) = 3
    /\ ranges_out[1] = [month_key |-> <<2023, 12>>, start_date |-> <<2023, 12, 20>>,
                        end_date |-> <<2023, 12, 31>>]
    /\ ranges_out[2] = [month_key |-> <<2024, 1>>, start_date |-> <<2024, 1, 1>>,
                        end_date |-> <<2024, 1, 31>>]
    /\ ranges_out[3] = [month_key |-> <<2024, 2>>, start_date |-> <<2024, 2, 1>>,
                        end_date |-> <<2024, 2, 15>>]

(***************************************************************************)
(* Properties of the written dates (checked under SpecWindow)              *)
(***************************************************************************)

\* The calendar date (UTC) of the OHLC_TIMESTAMP a row is written with.
TimestampDate(row) == row.OHLC_TIMESTAMP \div HoursPerDay

\* C29: every row of every uploaded artifact has as OHLC_DATE the calendar
\* date of its OHLC_TIMESTAMP, and the month of its object key is the month
\* of that date, whatever the host's offset from UTC.
C29_DateIsDateOfTimestamp ==
    \A key \in DOMAIN s3 :
        \A row \in Range(s3[key]) :
            /\ row.OHLC_DATE = TimestampDate(row)
            /\ <<key[2], key[3]>> = MonthOfDay(TimestampDate(row))

\* C29: on a host six hours behind UTC the bar of 2024-03-01 05:00 UTC is
\* uploaded in the artifact of February 2024 with OHLC_DATE 2024-02-29 and
\* the timestamp of 1 March.
C29_MarchBarDatedFebruaryOnWesternHost ==
    /\ tz = -6
    /\ <<"AAPL", 2024, 2>> \in DOMAIN s3
    /\ \E row \in Range(s3[<<"AAPL", 2024, 2>>]) :
          /\ row.OHLC_TIMESTAMP = 19783 * HoursPerDay + 5
          /\ row.OHLC_DATE = 19782
          /\ TimestampDate(row) = 19783

(***************************************************************************)
(* Properties of the verification wrapper (checked under SpecVerify)       *)
(***************************************************************************)

\* C30: the wrapper exits only after the verifier has run; it exits with 0
\* exactly when the verification passed, with 1 exactly when it ended in
\* warnings, and with 2 whenever it failed, a verifier that crashed without a
\* result included.
C30_ExitCodeTellsVerificationOutcome ==
    vpc = "exited" =>
        /\ final_exit_code = 0 <=> overall_status = "PASSED"
        /\ final_exit_code = 1 <=> overall_status = "WARNING"
        /\ overall_status \notin {"PASSED", "WARNING"} => final_exit_code = 2

\* C30: the verifier ended without a result, with return code 1, and the
\* wrapper exited with 1, the code of a verification with warnings.
C30_CrashedVerifierReportedAsWarning ==
    /\ vpc = "exited"
    /\ verification_results = <<>>
    /\ overall_status = ""
    /\ verification_code = 1
    /\ final_exit_code = 1

=============================================================================
